---- MODULE Spec2Model ----
(***************************************************************************)
(* podcast-cli: the cost-aware generation pipeline of src/main.py with the *)
(* Topic Cache (src/cache.py), the usage ledger (src/usage_logger.py), the *)
(* budget gate and synthesis client (src/tts_client.py) and the            *)
(* normalization client (src/text_processor.py).                           *)
(*                                                                         *)
(* Texts and topics are sequences of one-character strings.  Calls to the  *)
(* three external services are steps whose outcome the environment picks.  *)
(* The billable calls (normalization, synthesis) are two steps, request    *)
(* and return, so that "before the call has returned" is a state.          *)
(***************************************************************************)
EXTENDS Integers, Sequences, FiniteSets, TLC

VARIABLES
    cache,          \* cache directory: normalized key -> stored text
    ledger,         \* usage.jsonl: the sequence of appended events
    outputs,        \* files under the output root (or at explicit paths)
    nruns,          \* number of program invocations started so far
    pc,             \* position of the running invocation
    args,           \* its parsed command line
    content,        \* main: content
    processed_text, \* main: processed_text
    gate,           \* main: has_balance, required, available
    chunks,         \* main: chunks
    audio_segments, \* main: audio_segments
    chunk_no,       \* main: i, the number of the chunk being synthesized
    caller,         \* who waits for the synthesis request in flight
    ret,            \* value returned to a direct caller of generate_audio
    report,         \* what the invocation printed last and its exit code
    calls,          \* history of the calls this invocation made
    start,          \* snapshot of cache, ledger and outputs at its start
    ct_pc,          \* chunk_text: position of a call of the chunker
    ct_text,        \* chunk_text: text
    ct_chunk_size,  \* chunk_text: chunk_size
    ct_remaining,   \* chunk_text: remaining
    ct_chunks,      \* chunk_text: chunks
    pricing         \* usage_logger: OPENAI_PRICING and ELEVENLABS_PRICING

\* the locals of a call of audio_utils.chunk_text
chunker == <<ct_pc, ct_text, ct_chunk_size, ct_remaining, ct_chunks>>

\* the state of the pipeline
pipeline == <<cache, ledger, outputs, nruns, pc, args, content, processed_text,
              gate, chunks, audio_segments, chunk_no, caller, ret, report, calls,
              start>>

vars == <<pipeline, chunker, pricing>>

-----------------------------------------------------------------------------
(* Bounds of the model *)

MaxRuns == 2
MaxBalance == 2
MaxLen == 6
MaxChunkSize == 5
MaxTopicLen == 3
MaxCalls == 3

\* lines of a log file that is read
MaxLines == 3

\* segments given to one call of concatenate_audio
MaxSegments == 3

(* Program constants *)

PREVIEW_CHAR_COUNT == 500
CHUNK_SIZE == 5000

Topics == { <<"A", " ">>, <<"b", "/">> }
Contents == { <<"a">>, <<"a", ".", " ", "a">> }
NormTexts == { <<>>, <<"a", ".">>, <<"a", ".", " ", "a">> }
Balances == 0..MaxBalance
Responses == {"y", "n", ""}
OutputPaths == {"none", "custom.mp3"}

NoTopic == <<>>

-----------------------------------------------------------------------------
(* Characters *)

UpperCase == {"A", "B", "I", "T", "X", "U+0130"}
LowerCase == {"a", "b", "i", "t", "x"}
Letters == UpperCase \cup LowerCase

\* the lower-case and upper-case forms of a letter that has a one-character form
CaseTable ==
    { <<"A", "a">>, <<"B", "b">>, <<"I", "i">>, <<"T", "t">>, <<"X", "x">> }

LowerChar(c) ==
    IF \E p \in CaseTable : p[1] = c
    THEN (CHOOSE p \in CaseTable : p[1] = c)[2] ELSE c
UpperChar(c) ==
    IF \E p \in CaseTable : p[2] = c
    THEN (CHOOSE p \in CaseTable : p[2] = c)[1] ELSE c

\* str.lower() of one character: U+0130 (capital I with dot above) lowers to
\* two characters, i followed by U+0307 (combining dot above)
LowerOf(c) == IF c = "U+0130" THEN <<"i", "U+0307">> ELSE <<LowerChar(c)>>

\* str.lower()
RECURSIVE Lower(_)
Lower(t) == IF t = <<>> THEN <<>> ELSE LowerOf(Head(t)) \o Lower(Tail(t))

\* regex \w : letters, digits and the underscore
IsWordChar(c) == c \in Letters \/ c = "_"

\* str.title(): a letter is upper-cased after a non-letter, lower-cased after a letter
RECURSIVE TitleFrom(_, _)
TitleFrom(t, after_letter) ==
    IF t = <<>> THEN <<>>
    ELSE (IF after_letter THEN LowerOf(Head(t)) ELSE <<UpperChar(Head(t))>>)
         \o TitleFrom(Tail(t), Head(t) \in Letters)

Title(t) == TitleFrom(t, FALSE)

normalize_topic(t) == Title(t)

-----------------------------------------------------------------------------
(* Topic Cache (src/cache.py) *)

\* re.sub(r'[^\w\-]', '_', topic)
ReplaceSpecial(t) ==
    [i \in DOMAIN t |-> IF IsWordChar(t[i]) \/ t[i] = "-" THEN t[i] ELSE "_"]

\* re.sub(r'_+', '_', normalized)
RECURSIVE CollapseUnderscores(_)
CollapseUnderscores(t) ==
    IF Len(t) <= 1 THEN t
    ELSE IF t[1] = "_" /\ t[2] = "_" THEN CollapseUnderscores(Tail(t))
    ELSE <<t[1]>> \o CollapseUnderscores(Tail(t))

\* normalized.strip('_')
RECURSIVE StripUnderscores(_)
StripUnderscores(t) ==
    IF t = <<>> THEN t
    ELSE IF t[1] = "_" THEN StripUnderscores(Tail(t))
    ELSE IF t[Len(t)] = "_" THEN StripUnderscores(SubSeq(t, 1, Len(t) - 1))
    ELSE t

_normalize_filename(topic) ==
    Lower(StripUnderscores(CollapseUnderscores(ReplaceSpecial(topic))))

\* the cache file of a topic is named by its normalized key
get_cache_path(topic) == _normalize_filename(topic)

is_cached(c, topic) == get_cache_path(topic) \in DOMAIN c

\* Path.write_text(text, encoding='utf-8'): a text file is opened with the
\* default newline handling, which on POSIX writes "\n" as it is, and the
\* characters are encoded as UTF-8: one byte for an ASCII character (written
\* here like the character), two bytes for U+00E9
EncodeChar(c) == IF c = "U+00E9" THEN <<"0xC3", "0xA9">> ELSE <<c>>

RECURSIVE WriteText(_)
WriteText(text) ==
    IF text = <<>> THEN <<>> ELSE EncodeChar(Head(text)) \o WriteText(Tail(text))

\* bytes.decode('utf-8')
RECURSIVE DecodeUtf8(_)
DecodeUtf8(bytes) ==
    IF bytes = <<>> THEN <<>>
    ELSE IF Len(bytes) >= 2 /\ bytes[1] = "0xC3" /\ bytes[2] = "0xA9"
         THEN <<"U+00E9">> \o DecodeUtf8(SubSeq(bytes, 3, Len(bytes)))
    ELSE <<bytes[1]>> \o DecodeUtf8(Tail(bytes))

\* universal newlines on input: "\r\n" and "\r" are both read as "\n"
RECURSIVE UniversalNewlines(_)
UniversalNewlines(t) ==
    IF t = <<>> THEN <<>>
    ELSE IF t[1] = "\r"
         THEN <<"\n">> \o UniversalNewlines(
                  IF Len(t) >= 2 /\ t[2] = "\n" THEN SubSeq(t, 3, Len(t)) ELSE Tail(t))
    ELSE <<t[1]>> \o UniversalNewlines(Tail(t))

\* Path.read_text(encoding='utf-8')
ReadText(bytes) == UniversalNewlines(DecodeUtf8(bytes))

\* a save that names the file by the topic as given
save_to_cache_unnormalized(c, topic, text) ==
    [k \in DOMAIN c \cup {topic} |-> IF k = topic THEN WriteText(text) ELSE c[k]]

\* a save that writes after what the file already holds
save_to_cache_appending(c, topic, text) ==
    [k \in DOMAIN c \cup {get_cache_path(topic)} |->
        IF k = get_cache_path(topic)
        THEN (IF k \in DOMAIN c THEN c[k] ELSE <<>>) \o WriteText(text)
        ELSE c[k]]

\* whole-file replace of the entry under the topic's key
save_to_cache(c, topic, text) ==
    [k \in DOMAIN c \cup {get_cache_path(topic)} |->
        IF k = get_cache_path(topic) THEN WriteText(text) ELSE c[k]]

\* a load that finds the file and returns nothing of it
load_from_cache_blank(c, topic) == <<>>

\* defined when is_cached(c, topic); the caller checks that first
load_from_cache(c, topic) == ReadText(c[get_cache_path(topic)])

\* cache_file.stem: the file name without its suffix; the file of the empty
\* key is named ".txt", which pathlib takes as a name without suffix
Stem(key) == IF key = <<>> THEN <<".", "t", "x", "t">> ELSE key

\* lines 114-116: cache_file.stem.replace('_', ' ').title()
CachedLabel(key) ==
    Title([k \in DOMAIN Stem(key) |-> IF Stem(key)[k] = "_" THEN " " ELSE Stem(key)[k]])

\* the sequences that list every element of a set once: the orders in which
\* glob may yield the files of a directory
Orderings(S) ==
    { f \in [1..Cardinality(S) -> S] : \A x \in S : \E k \in DOMAIN f : f[k] = x }

\* a listing that gives the file stems as they are
list_cached_stems(files) == [k \in DOMAIN files |-> Stem(files[k])]

\* list_cached when glob yields the files in the order `files`
list_cached(files) == [k \in DOMAIN files |-> CachedLabel(files[k])]

\* a delete that removes nothing
delete_from_cache_kept(c, topic) == c

\* lines 132-135: the file of the topic's key is unlinked if it exists
delete_from_cache(c, topic) ==
    [k \in DOMAIN c \ {get_cache_path(topic)} |-> c[k]]

\* lines 149-152: every file is unlinked
clear_cache(c) == [k \in {} |-> <<>>]

-----------------------------------------------------------------------------
(* Usage ledger (src/usage_logger.py) *)

\* round(x, n) of the quotient num/den, to the nearest unit, ties to even
RoundDiv(num, den) ==
    LET q == num \div den
        r == num % den
    IN  IF 2 * r < den THEN q
        ELSE IF 2 * r > den THEN q + 1
        ELSE IF q % 2 = 0 THEN q ELSE q + 1

\* costs are kept in millionths of a dollar (cost_usd is rounded to 6 places)
\* and prices in hundredths of a millionth of a dollar per unit.
\* OPENAI_PRICING: 0.15 and 0.60 dollars per million tokens;
\* ELEVENLABS_PRICING: 0.000167 dollars per character
PricingAsShipped == [input |-> 15, output |-> 60, per_character |-> 16700]

\* lines 54-57, 67: the cost at the prices in force when the event is recorded
OpenAICost(input_tokens, output_tokens) ==
    RoundDiv(pricing.input * input_tokens + pricing.output * output_tokens, 100)

\* lines 92, 98
ElevenLabsCost(characters) == RoundDiv(pricing.per_character * characters, 100)

OpenAIEntry(input_tokens, output_tokens, context, topic) ==
    [ service       |-> "openai",
      model         |-> "gpt-4o-mini",
      input_tokens  |-> input_tokens,
      output_tokens |-> output_tokens,
      total_tokens  |-> input_tokens + output_tokens,
      cost_usd      |-> OpenAICost(input_tokens, output_tokens),
      context       |-> context,
      topic         |-> topic ]

ElevenLabsEntry(characters, context, topic) ==
    [ service    |-> "elevenlabs",
      characters |-> characters,
      cost_usd   |-> ElevenLabsCost(characters),
      context    |-> context,
      topic      |-> topic ]

log_openai_usage(l, input_tokens, output_tokens, context, topic) ==
    Append(l, OpenAIEntry(input_tokens, output_tokens, context, topic))

\* a record function that writes the event at the head of the file
log_elevenlabs_usage_first(l, characters, context, topic) ==
    <<ElevenLabsEntry(characters, context, topic)>> \o l

log_elevenlabs_usage(l, characters, context, topic) ==
    Append(l, ElevenLabsEntry(characters, context, topic))

-----------------------------------------------------------------------------
(* Reading the usage log (src/usage_logger.py, get_usage_summary and
   get_usage_by_topic). cost_usd is a Python float: an IEEE 754 double.
   A double is kept as [m, e]: the bits of its 53-bit significand, the most
   significant first, and the exponent of its last bit; its value is
   m * 2^e. Zero has no bits. Sums and products of significands are made on
   their digits in base 1024. *)

\* bits of the significand of a double
Precision == 53

\* cost_usd is rounded to 6 places when it is stored: millionths of a dollar
MicroPerDollar == 1000000

\* the totals are rounded to 4 places: ten-thousandths of a dollar
ReportPerDollar == 10000

\* bits of one digit in base 1024
LimbBits == 10

LimbBase == 2 ^ LimbBits

\* digits in base 1024 taken of the fraction micro / 10^6: 80 bits, which
\* leaves more than Precision bits after the leading zeros of 0.000001
FractionLimbs == 8

FloatZero == [m |-> <<>>, e |-> 0]

Front(s) == SubSeq(s, 1, Len(s) - 1)

Zeros(n) == [k \in 1..n |-> 0]

\* the binary digits of a natural number, none for 0
RECURSIVE BitsOf(_)
BitsOf(n) == IF n = 0 THEN <<>> ELSE Append(BitsOf(n \div 2), n % 2)

\* the natural number with these binary digits
RECURSIVE ValueOf(_)
ValueOf(bits) ==
    IF bits = <<>> THEN 0 ELSE 2 * ValueOf(Front(bits)) + bits[Len(bits)]

\* without the leading zeros
StripZeros(bits) ==
    LET ones == {k \in DOMAIN bits : bits[k] = 1}
    IN  IF ones = {} THEN <<>>
        ELSE SubSeq(bits, CHOOSE k \in ones : \A j \in ones : k <= j, Len(bits))

\* the digits in base 1024 of a number given by its bits
Limbs(bits) ==
    LET n == (Len(bits) + LimbBits - 1) \div LimbBits
        padded == Zeros(n * LimbBits - Len(bits)) \o bits
    IN  [j \in 1..n |-> ValueOf(SubSeq(padded, LimbBits * (j - 1) + 1, LimbBits * j))]

\* the bits of a number given by its digits in base 1024
Bits(limbs) ==
    StripZeros([k \in 1..(LimbBits * Len(limbs)) |->
                   (limbs[(k - 1) \div LimbBits + 1]
                        \div 2 ^ (LimbBits - 1 - ((k - 1) % LimbBits))) % 2])

\* a + b + carry on digits in base 1024
RECURSIVE AddLimbs(_, _, _)
AddLimbs(a, b, carry) ==
    IF a = <<>> /\ b = <<>> THEN (IF carry = 0 THEN <<>> ELSE <<carry>>)
    ELSE LET x == IF a = <<>> THEN 0 ELSE a[Len(a)]
             y == IF b = <<>> THEN 0 ELSE b[Len(b)]
             s == x + y + carry
         IN  Append(AddLimbs(IF a = <<>> THEN a ELSE Front(a),
                             IF b = <<>> THEN b ELSE Front(b),
                             s \div LimbBase),
                    s % LimbBase)

\* a * c + carry on digits in base 1024, c and carry below 2^20
RECURSIVE MulLimbs(_, _, _)
MulLimbs(a, c, carry) ==
    IF a = <<>> THEN (IF carry = 0 THEN <<>>
                      ELSE Append(MulLimbs(a, c, carry \div LimbBase), carry % LimbBase))
    ELSE LET s == a[Len(a)] * c + carry
         IN  Append(MulLimbs(Front(a), c, s \div LimbBase), s % LimbBase)

AddBits(a, b) == Bits(AddLimbs(Limbs(a), Limbs(b), 0))

\* bits + 1: the zero furthest right becomes 1 and the ones after it 0
AddOne(bits) ==
    LET zeros == {k \in DOMAIN bits : bits[k] = 0}
        z == CHOOSE k \in zeros : \A j \in zeros : j <= k
    IN  IF zeros = {} THEN <<1>> \o Zeros(Len(bits))
        ELSE [k \in DOMAIN bits |-> IF k < z THEN bits[k] ELSE IF k = z THEN 1 ELSE 0]

\* round to nearest, ties to even: the digits `kept` go up by one when what
\* is cut off after them (the bits `cut`, and something more when `sticky`)
\* is more than half, or half and kept is odd
RoundsUp(kept, cut, sticky) ==
    /\ cut # <<>>
    /\ cut[1] = 1
    /\ \/ sticky
       \/ \E k \in 2..Len(cut) : cut[k] = 1
       \/ (kept # <<>> /\ kept[Len(kept)] = 1)

\* the double nearest to bits * 2^e (and a little more when `sticky`), bits
\* having at least Precision digits and no leading zero
RoundToDouble(bits, e, sticky) ==
    LET kept == SubSeq(bits, 1, Precision)
        cut == SubSeq(bits, Precision + 1, Len(bits))
        up == IF RoundsUp(kept, cut, sticky) THEN AddOne(kept) ELSE kept
    IN  IF Len(up) > Precision
        THEN [m |-> SubSeq(up, 1, Precision), e |-> e + Len(cut) + 1]
        ELSE [m |-> up, e |-> e + Len(cut)]

\* float addition
FloatAdd(x, y) ==
    IF x.m = <<>> THEN y
    ELSE IF y.m = <<>> THEN x
    ELSE LET e == IF x.e < y.e THEN x.e ELSE y.e
         IN  RoundToDouble(AddBits(x.m \o Zeros(x.e - e), y.m \o Zeros(y.e - e)),
                           e, FALSE)

\* long division of rem / 10^6, rem < 10^6: the first n digits in base 1024
\* of the fraction
RECURSIVE FractionDigits(_, _)
FractionDigits(rem, n) ==
    IF n = 0 THEN <<>>
    ELSE <<(rem * LimbBase) \div MicroPerDollar>>
             \o FractionDigits((rem * LimbBase) % MicroPerDollar, n - 1)

\* what is left of rem after n digits
RECURSIVE FractionRest(_, _)
FractionRest(rem, n) ==
    IF n = 0 THEN rem ELSE FractionRest((rem * LimbBase) % MicroPerDollar, n - 1)

\* json.loads of a cost written with 6 places: the double nearest to
\* micro / 10^6
ParseCost(micro) ==
    IF micro = 0 THEN FloatZero
    ELSE LET fraction == FractionDigits(micro % MicroPerDollar, FractionLimbs)
             rest == FractionRest(micro % MicroPerDollar, FractionLimbs)
             bits == Bits(<<micro \div MicroPerDollar>> \o fraction)
         IN  RoundToDouble(bits, 0 - LimbBits * FractionLimbs, rest # 0)

\* round(x, 4), in ten-thousandths of a dollar: the multiple of 0.0001
\* nearest to the exact value of the double, ties to even
Round4(x) ==
    IF x.m = <<>> THEN 0
    ELSE LET scaled == Bits(MulLimbs(Limbs(x.m), ReportPerDollar, 0))
             t == 0 - x.e
             padded == Zeros(t - Len(scaled)) \o scaled
             whole == SubSeq(padded, 1, Len(padded) - t)
             cut == SubSeq(padded, Len(padded) - t + 1, Len(padded))
         IN  ValueOf(whole) + (IF RoundsUp(whole, cut, FALSE) THEN 1 ELSE 0)

\* a line of the log file is a JSON object, kept as a record of its
\* members, or text that is no JSON, kept under `line`
BlankLine == [line |-> ""]

MalformedLine == [line |-> "{not json"]

\* lines 135, 180: not line.strip()
IsBlank(l) == "line" \in DOMAIN l /\ l.line = ""

\* lines 137, 182: json.loads(line) returns
Parses(l) == "line" \notin DOMAIN l

\* dict.get(field, default)
Get(entry, field, default) ==
    IF field \in DOMAIN entry THEN entry[field] ELSE default

\* context=None
NoContext == "None"

\* a filter that is always taken as not given
NoFilterGivenEver(context) == TRUE

\* line 139: `if context and ...` does not filter on None or ""
NoFilterGiven(context) == context \in {NoContext, ""}

\* the cost at the prices in force when the log is read
StoredCostRepriced(entry) ==
    IF Get(entry, "service", "") = "openai"
    THEN ParseCost(OpenAICost(entry.input_tokens, entry.output_tokens))
    ELSE ParseCost(ElevenLabsCost(entry.characters))

\* lines 144, 148, 188: entry.get("cost_usd", 0), a float read from the line
StoredCost(entry) == ParseCost(Get(entry, "cost_usd", 0))

\* lines 126-131
SummaryStart ==
    [ raised           |-> "no",
      openai_tokens    |-> 0,
      openai_cost      |-> FloatZero,
      openai_calls     |-> 0,
      elevenlabs_chars |-> 0,
      elevenlabs_cost  |-> FloatZero,
      elevenlabs_calls |-> 0 ]

\* lines 135-149: one line of the file
SummaryLine(acc, l, context) ==
    IF acc.raised # "no" THEN acc
    ELSE IF IsBlank(l) THEN acc
    ELSE IF ~Parses(l) THEN [acc EXCEPT !.raised = "JSONDecodeError"]
    ELSE IF ~NoFilterGiven(context) /\ Get(l, "context", NoContext) # context THEN acc
    ELSE IF "service" \notin DOMAIN l THEN [acc EXCEPT !.raised = "KeyError"]
    ELSE IF l.service = "openai"
         THEN [acc EXCEPT !.openai_tokens = @ + Get(l, "total_tokens", 0),
                          !.openai_cost = FloatAdd(@, StoredCost(l)),
                          !.openai_calls = @ + 1]
    ELSE IF l.service = "elevenlabs"
         THEN [acc EXCEPT !.elevenlabs_chars = @ + Get(l, "characters", 0),
                          !.elevenlabs_cost = FloatAdd(@, StoredCost(l)),
                          !.elevenlabs_calls = @ + 1]
    ELSE acc

\* lines 133-149: the loop over the lines of the file
RECURSIVE SummaryLoop(_, _, _)
SummaryLoop(acc, lines, context) ==
    IF lines = <<>> THEN acc
    ELSE SummaryLoop(SummaryLine(acc, Head(lines), context), Tail(lines), context)

\* get_usage_summary on the log l; costs are returned in ten-thousandths
get_usage_summary(l, context) ==
    LET acc == SummaryLoop(SummaryStart, l, context)
    IN  IF acc.raised # "no" THEN [res |-> acc.raised]
        ELSE [ res            |-> "ok",
               openai         |-> [ total_tokens   |-> acc.openai_tokens,
                                    total_cost_usd |-> Round4(acc.openai_cost),
                                    calls          |-> acc.openai_calls ],
               elevenlabs     |-> [ total_characters |-> acc.elevenlabs_chars,
                                    total_cost_usd   |-> Round4(acc.elevenlabs_cost),
                                    calls            |-> acc.elevenlabs_calls ],
               total_cost_usd |-> Round4(FloatAdd(acc.openai_cost, acc.elevenlabs_cost)) ]

\* line 183: the label of an event without a topic
Unknown == <<"u", "n", "k", "n", "o", "w", "n">>

\* line 183: entry.get("topic") or "unknown"
TopicLabel(entry) ==
    LET topic == Get(entry, "topic", NoTopic)
    IN  IF topic = NoTopic THEN Unknown ELSE topic

\* line 186
TopicStart ==
    [openai_cost |-> FloatZero, elevenlabs_cost |-> FloatZero, total_cost |-> FloatZero]

\* lines 180-193: one line of the file
TopicLine(acc, l) ==
    IF acc.raised # "no" THEN acc
    ELSE IF IsBlank(l) THEN acc
    ELSE IF ~Parses(l) THEN [acc EXCEPT !.raised = "JSONDecodeError"]
    ELSE IF "service" \notin DOMAIN l THEN [acc EXCEPT !.raised = "KeyError"]
    ELSE LET topic == TopicLabel(l)
             seen == IF topic \in DOMAIN acc.topics THEN acc.topics[topic] ELSE TopicStart
             cost == StoredCost(l)
             now == IF l.service = "openai"
                    THEN [seen EXCEPT !.openai_cost = FloatAdd(@, cost),
                                      !.total_cost = FloatAdd(@, cost)]
                    ELSE [seen EXCEPT !.elevenlabs_cost = FloatAdd(@, cost),
                                      !.total_cost = FloatAdd(@, cost)]
         IN  [acc EXCEPT !.topics = [t \in DOMAIN acc.topics \cup {topic} |->
                                        IF t = topic THEN now ELSE acc.topics[t]]]

\* lines 178-193: the loop over the lines of the file
RECURSIVE TopicLoop(_, _)
TopicLoop(acc, lines) ==
    IF lines = <<>> THEN acc
    ELSE TopicLoop(TopicLine(acc, Head(lines)), Tail(lines))

\* get_usage_by_topic on the log l; costs are returned in ten-thousandths
get_usage_by_topic(l) ==
    LET acc == TopicLoop([raised |-> "no", topics |-> [t \in {} |-> TopicStart]], l)
    IN  IF acc.raised # "no" THEN [res |-> acc.raised]
        ELSE [ res    |-> "ok",
               topics |-> [t \in DOMAIN acc.topics |->
                             [ openai_cost     |-> Round4(acc.topics[t].openai_cost),
                               elevenlabs_cost |-> Round4(acc.topics[t].elevenlabs_cost),
                               total_cost      |-> Round4(acc.topics[t].total_cost) ]] ]

\* clear_logs
clear_logs(l) == <<>>

-----------------------------------------------------------------------------
(* Text chunking and audio assembly (src/audio_utils.py) *)

Whitespace == {" ", "\n"}

\* str.strip()
RECURSIVE Strip(_)
Strip(t) ==
    IF t = <<>> THEN t
    ELSE IF t[1] \in Whitespace THEN Strip(Tail(t))
    ELSE IF t[Len(t)] \in Whitespace THEN Strip(SubSeq(t, 1, Len(t) - 1))
    ELSE t

\* t[:n] and t[n:] for 0 <= n
Prefix(t, n) == SubSeq(t, 1, IF n < Len(t) THEN n ELSE Len(t))
Suffix(t, n) == SubSeq(t, n + 1, Len(t))

Max(a, b) == IF a >= b THEN a ELSE b

\* str.rfind of a one- or two-character pattern: 0-based index, -1 when absent
RFind1(t, c) ==
    LET hits == {k \in 1..Len(t) : t[k] = c}
    IN  IF hits = {} THEN -1 ELSE (CHOOSE k \in hits : \A m \in hits : m <= k) - 1

RFind2(t, c, d) ==
    LET hits == {k \in 1..(Len(t) - 1) : t[k] = c /\ t[k + 1] = d}
    IN  IF hits = {} THEN -1 ELSE (CHOOSE k \in hits : \A m \in hits : m <= k) - 1

\* a window one character too wide
TakeChunkOverflow(remaining, chunk_size) ==
    LET chunk == Prefix(remaining, chunk_size + 1)
        last_period == RFind2(chunk, ".", " ")
        last_newline == RFind1(chunk, "\n")
        split_point == Max(last_period, last_newline)
    IN  IF 2 * split_point > chunk_size
        THEN Prefix(remaining, split_point + 1)
        ELSE chunk

\* one pass of the while loop: the slice taken from `remaining`, before strip
\* a split at the last boundary wherever in the window it lies
TakeChunkAnyBoundary(remaining, chunk_size) ==
    LET chunk == Prefix(remaining, chunk_size)
        split_point == Max(RFind2(chunk, ".", " "), RFind1(chunk, "\n"))
    IN  IF split_point > 0
        THEN Prefix(remaining, split_point + 1)
        ELSE chunk

TakeChunk(remaining, chunk_size) ==
    LET chunk == Prefix(remaining, chunk_size)
        last_period == RFind2(chunk, ".", " ")
        last_newline == RFind1(chunk, "\n")
        split_point == Max(last_period, last_newline)
    IN  IF 2 * split_point > chunk_size
        THEN Prefix(remaining, split_point + 1)
        ELSE chunk

RECURSIVE ChunkLoop(_, _)
ChunkLoop(remaining, chunk_size) ==
    IF remaining = <<>> THEN <<>>
    ELSE IF Len(remaining) <= chunk_size THEN <<remaining>>
    ELSE LET chunk == TakeChunk(remaining, chunk_size)
         IN  <<Strip(chunk)>>
             \o ChunkLoop(Strip(Suffix(remaining, Len(chunk))), chunk_size)

chunk_text(text, chunk_size) ==
    IF Len(text) <= chunk_size THEN <<text>> ELSE ChunkLoop(text, chunk_size)

\* Audio bytes are modelled by what they encode: the texts spoken, in order,
\* and the encoder that produced the bytes.
ProviderAudio(text) == [encoder |-> "elevenlabs", speech |-> <<text>>]

RECURSIVE JoinSpeech(_)
JoinSpeech(segments) ==
    IF segments = <<>> THEN <<>>
    ELSE Head(segments).speech \o JoinSpeech(Tail(segments))

\* an assembler that decodes and encodes again whatever it is given
concatenate_audio_reencoding(segments) ==
    [encoder |-> "pydub", speech |-> JoinSpeech(segments)]

concatenate_audio(segments) ==
    IF Len(segments) = 1 THEN segments[1]
    ELSE [encoder |-> "pydub", speech |-> JoinSpeech(segments)]

\* topic.lower().replace(" ", "_").replace("/", "_")
safe_topic(topic) ==
    LET lowered == Lower(topic)
    IN  [k \in DOMAIN lowered |->
            IF lowered[k] \in {" ", "/"} THEN "_" ELSE lowered[k]]

\* the path save_audio writes: the explicit one, or {safe_topic}_{timestamp}
OutputPath(topic, output_path, timestamp) ==
    IF output_path = "none"
    THEN [dir |-> "output", stem |-> safe_topic(topic), suffix |-> timestamp]
    ELSE [dir |-> "custom", stem |-> <<>>, suffix |-> 0]

\* the path save_preview writes: {safe_topic}_preview under the output root
PreviewPath(topic) == [dir |-> "output", stem |-> safe_topic(topic), suffix |-> -1]

\* whole-buffer write of one file, replacing a file already at that path
save_audio(files, audio_data, path) ==
    [p \in DOMAIN files \cup {path} |-> IF p = path THEN audio_data ELSE files[p]]

-----------------------------------------------------------------------------
(* Budget gate and synthesis client (src/tts_client.py) *)

estimate_cost(text) == Len(text)

\* a gate that wants more than the text costs
check_sufficient_balance_strict(text, available) ==
    LET required == Len(text)
    IN  [ checked     |-> TRUE,
          has_balance |-> available > required,
          required    |-> required,
          available   |-> available ]

\* `available` is the balance get_account_balance() returned for this call
check_sufficient_balance(text, available) ==
    LET required == estimate_cost(text)
    IN  [ checked     |-> TRUE,
          has_balance |-> available >= required,
          required    |-> required,
          available   |-> available ]

\* the parameters the two functions declare
generate_audio_params == {"text", "voice_id"}
generate_preview_params == {"text", "char_count"}

\* a call that binds whatever names it passes
BindsAnything(params, passed) == TRUE

\* a Python call binds when every argument it passes names a declared
\* parameter; otherwise it raises TypeError before the body runs
Binds(params, passed) == passed \subseteq params

\* the text generate_preview submits
PreviewText(text, char_count) ==
    LET preview_text == Prefix(text, char_count)
        last_period == RFind1(preview_text, ".")
    IN  IF 2 * last_period > char_count
        THEN Prefix(preview_text, last_period + 1)
        ELSE preview_text

-----------------------------------------------------------------------------
(* Normalization client (src/text_processor.py) *)

\* response.usage of a completed request: the prompt and completion tokens
UsageReports ==
    { [present |-> TRUE, prompt_tokens |-> 3, completion_tokens |-> 1],
      [present |-> TRUE, prompt_tokens |-> 5, completion_tokens |-> 2] }

\* a client that forgets to log
preprocess_text_log_never(l, usage, context, topic) == l

\* lines 84-92: the usage of the response is logged when the response has one
preprocess_text_log(l, usage, context, topic) ==
    IF usage.present
    THEN log_openai_usage(l, usage.prompt_tokens, usage.completion_tokens,
                          context, topic)
    ELSE l

-----------------------------------------------------------------------------
(* The command line (src/main.py) *)

ArgSets ==
    [ entry        : {"main"},
      topic        : Topics,
      from_cache   : BOOLEAN,
      cache_only   : BOOLEAN,
      auto         : BOOLEAN,
      preview_only : BOOLEAN,
      output       : OutputPaths ]

NoArgs ==
    [ entry |-> "none", topic |-> NoTopic, from_cache |-> FALSE,
      cache_only |-> FALSE, auto |-> FALSE, preview_only |-> FALSE,
      output |-> "none" ]

ApiArgs == [NoArgs EXCEPT !.entry = "api"]

NoGate == [checked |-> FALSE, has_balance |-> FALSE, required |-> 0, available |-> 0]
NoAudio == [encoder |-> "none", speech |-> <<>>]
NoFiles == <<>>

Running == [code |-> -1, reason |-> "running", shortfall |-> 0]
Exited(code, reason) == [code |-> code, reason |-> reason, shortfall |-> 0]

\* an exception nothing catches: traceback, exit code 1
Uncaught(kind) == Exited(1, kind)

\* the argument names main passes to generate_preview and to generate_audio
MainPreviewPassed == {"text", "char_count", "context", "topic"}
MainAudioPassed == {"text", "context", "topic"}

\* a gate that stops the run only on an empty account
GateAbortsWhenEmpty(g) == g.available = 0

\* main line 158 (81): the run stops when the gate reports no balance
GateAborts(g) == ~g.has_balance

\* main line 159 (82): "Need {required - available} more characters."
Shortfall(g) == g.required - g.available

\* a main without the --from-cache branch
TakesCachePathNever(a) == FALSE

\* main line 64: --from-cache takes the cache path, whatever else is given
TakesCachePath(a) == a.from_cache

\* a main that ignores the answer of the existence check
PageFoundAlways(answer) == TRUE

\* main line 128: "if not wikipedia_client.page_exists(args.topic)"
PageFound(answer) == answer = "yes"

\* a main without the --cache-only branch
StopsAfterCachingNever(a) == FALSE

\* main line 146: --cache-only stops after saving the processed text
StopsAfterCaching(a) == a.cache_only

\* one call of the history: what was called, on what, how it ended ("pending"
\* while the request is out) and the numbers it returned
Call(op, arg, res, val) == [op |-> op, arg |-> arg, res |-> res, val |-> val]

\* the last call of the history, with its result filled in
Returned(history, res, val) ==
    [history EXCEPT ![Len(history)] = [@ EXCEPT !.res = res, !.val = val]]

\* tts_client.generate_audio(text, ...) called with the argument names `passed`:
\* TypeError when they do not bind, else the request goes to the provider
Requested(history, text, passed, who) ==
    IF Binds(generate_audio_params, passed)
    THEN [ pc     |-> "synthesizing",
           calls  |-> Append(history, Call("text_to_speech", text, "pending", <<>>)),
           report |-> Running,
           caller |-> who ]
    ELSE [ pc     |-> "exited",
           calls  |-> Append(history, Call("generate_audio", text, "TypeError", <<>>)),
           report |-> Uncaught("TypeError"),
           caller |-> "none" ]

-----------------------------------------------------------------------------
(* Initial state: empty cache, no usage log, no output files, nothing running *)

\* no invocation has been started
NoRun ==
    /\ nruns = 0
    /\ pc = "idle"
    /\ args = NoArgs
    /\ content = <<>>
    /\ processed_text = <<>>
    /\ gate = NoGate
    /\ chunks = <<>>
    /\ audio_segments = <<>>
    /\ chunk_no = 0
    /\ caller = "none"
    /\ ret = NoAudio
    /\ report = Exited(0, "none")
    /\ start = [cache |-> <<>>, ledger |-> 0, outputs |-> NoFiles]

PipelineIdle ==
    /\ cache = <<>>
    /\ ledger = <<>>
    /\ outputs = NoFiles
    /\ calls = <<>>
    /\ NoRun

\* no call of the chunker is being followed
ChunkerIdle ==
    /\ ct_pc = "idle"
    /\ ct_text = <<>>
    /\ ct_chunk_size = 0
    /\ ct_remaining = <<>>
    /\ ct_chunks = <<>>

Init == PipelineIdle /\ ChunkerIdle /\ pricing = PricingAsShipped

Fresh(a) ==
    /\ nruns' = nruns + 1
    /\ args' = a
    /\ content' = <<>>
    /\ processed_text' = <<>>
    /\ gate' = NoGate
    /\ chunks' = <<>>
    /\ audio_segments' = <<>>
    /\ chunk_no' = 0
    /\ ret' = NoAudio
    /\ start' = [cache |-> cache, ledger |-> Len(ledger), outputs |-> outputs]
    /\ UNCHANGED <<cache, ledger, outputs>>
    /\ UNCHANGED <<chunker, pricing>>

\* main lines 12-61: a new invocation with a topic
StartRun(a) ==
    /\ pc \in {"idle", "exited"}
    /\ nruns < MaxRuns
    /\ Fresh(a)
    /\ pc' = "parsed"
    /\ caller' = "none"
    /\ report' = Running
    /\ calls' = <<>>

\* main lines 64-72: --from-cache
LoadCached ==
    /\ pc = "parsed"
    /\ TakesCachePath(args)
    /\ IF ~is_cached(cache, args.topic)
       THEN /\ pc' = "exited"
            /\ report' = Exited(1, "not_cached")
            /\ UNCHANGED processed_text
       ELSE /\ pc' = "balance"
            /\ processed_text' = load_from_cache(cache, args.topic)
            /\ UNCHANGED report
    /\ UNCHANGED <<cache, ledger, outputs, nruns, args, content, gate, chunks,
                   audio_segments, chunk_no, caller, ret, calls, start>>
    /\ UNCHANGED <<chunker, pricing>>

\* main lines 127-131: wikipedia_client.page_exists answers
PageExists(answer) ==
    /\ pc = "parsed"
    /\ ~TakesCachePath(args)
    /\ calls' = Append(calls, Call("page_exists", normalize_topic(args.topic),
                                   answer, <<>>))
    /\ pc' = IF PageFound(answer) THEN "fetch" ELSE "exited"
    /\ report' = IF PageFound(answer) THEN report ELSE Exited(1, "not_found")
    /\ UNCHANGED <<cache, ledger, outputs, nruns, args, content, processed_text,
                   gate, chunks, audio_segments, chunk_no, caller, ret, start>>
    /\ UNCHANGED <<chunker, pricing>>

\* the existence request raises: nothing catches it
PageExistsRaises ==
    /\ pc = "parsed"
    /\ ~TakesCachePath(args)
    /\ calls' = Append(calls, Call("page_exists", normalize_topic(args.topic),
                                   "raised", <<>>))
    /\ pc' = "exited"
    /\ report' = Uncaught("page_exists")
    /\ UNCHANGED <<cache, ledger, outputs, nruns, args, content, processed_text,
                   gate, chunks, audio_segments, chunk_no, caller, ret, start>>
    /\ UNCHANGED <<chunker, pricing>>

\* main lines 134-136: wikipedia_client.get_page_content returns the text
FetchContent(text) ==
    /\ pc = "fetch"
    /\ calls' = Append(calls, Call("get_page_content", normalize_topic(args.topic),
                                   "ok", <<>>))
    /\ content' = text
    /\ pc' = "normalize"
    /\ UNCHANGED <<cache, ledger, outputs, nruns, args, processed_text, gate,
                   chunks, audio_segments, chunk_no, caller, ret, report, start>>
    /\ UNCHANGED <<chunker, pricing>>

\* a main that has created its output file before the pipeline starts
FetchRaisesLeavesFile ==
    /\ pc = "fetch"
    /\ calls' = Append(calls, Call("get_page_content", normalize_topic(args.topic),
                                   "raised", <<>>))
    /\ outputs' = save_audio(outputs, NoAudio, OutputPath(args.topic, args.output, 1))
    /\ pc' = "exited"
    /\ report' = Uncaught("get_page_content")
    /\ UNCHANGED <<cache, ledger, nruns, args, content, processed_text,
                   gate, chunks, audio_segments, chunk_no, caller, ret, start>>
    /\ UNCHANGED <<chunker, pricing>>

\* wikipedia_client lines 45-46, or a failure of the request: the call raises
FetchRaises ==
    /\ pc = "fetch"
    /\ calls' = Append(calls, Call("get_page_content", normalize_topic(args.topic),
                                   "raised", <<>>))
    /\ pc' = "exited"
    /\ report' = Uncaught("get_page_content")
    /\ UNCHANGED <<cache, ledger, outputs, nruns, args, content, processed_text,
                   gate, chunks, audio_segments, chunk_no, caller, ret, start>>
    /\ UNCHANGED <<chunker, pricing>>

\* main lines 139-142, text_processor lines 72-81: the request is sent
NormalizeCall ==
    /\ pc = "normalize"
    /\ calls' = Append(calls, Call("chat_completion", content, "pending", <<>>))
    /\ pc' = "normalizing"
    /\ UNCHANGED <<cache, ledger, outputs, nruns, args, content, processed_text,
                   gate, chunks, audio_segments, chunk_no, caller, ret, report, start>>
    /\ UNCHANGED <<chunker, pricing>>

\* text_processor lines 83-94, main lines 143-150: the response arrives
NormalizeReturn(text, usage) ==
    /\ pc = "normalizing"
    /\ calls' = Returned(calls, "ok", <<usage.prompt_tokens, usage.completion_tokens>>)
    /\ ledger' = preprocess_text_log(ledger, usage, "production", args.topic)
    /\ processed_text' = text
    /\ IF StopsAfterCaching(args)
       THEN /\ cache' = save_to_cache(cache, args.topic, text)
            /\ pc' = "exited"
            /\ report' = Exited(0, "cached")
       ELSE /\ pc' = "balance"
            /\ UNCHANGED <<cache, report>>
    /\ UNCHANGED <<outputs, nruns, args, content, gate, chunks, audio_segments,
                   chunk_no, caller, ret, start>>
    /\ UNCHANGED <<chunker, pricing>>

\* a client that sends the request again when it raised
NormalizeRaisesRetried ==
    /\ pc = "normalizing"
    /\ calls' = Returned(calls, "raised", <<>>)
    /\ pc' = "normalize"
    /\ UNCHANGED <<cache, ledger, outputs, nruns, args, content, processed_text,
                   gate, chunks, audio_segments, chunk_no, caller, ret, report, start>>
    /\ UNCHANGED <<chunker, pricing>>

\* a client that logs the usage of a request that raised
NormalizeRaisesLogged ==
    /\ pc = "normalizing"
    /\ calls' = Returned(calls, "raised", <<>>)
    /\ ledger' = log_openai_usage(ledger, 0, 0, "production", args.topic)
    /\ pc' = "exited"
    /\ report' = Uncaught("chat_completion")
    /\ UNCHANGED <<cache, outputs, nruns, args, content, processed_text,
                   gate, chunks, audio_segments, chunk_no, caller, ret, start>>
    /\ UNCHANGED <<chunker, pricing>>

\* the normalization request raises: nothing catches it
NormalizeRaises ==
    /\ pc = "normalizing"
    /\ calls' = Returned(calls, "raised", <<>>)
    /\ pc' = "exited"
    /\ report' = Uncaught("chat_completion")
    /\ UNCHANGED <<cache, ledger, outputs, nruns, args, content, processed_text,
                   gate, chunks, audio_segments, chunk_no, caller, ret, start>>
    /\ UNCHANGED <<chunker, pricing>>

\* a gate that takes the balance from memory and sends no query
CheckBalanceUnqueried(available) ==
    /\ pc = "balance"
    /\ LET g == check_sufficient_balance(processed_text, available)
       IN  /\ gate' = g
           /\ IF GateAborts(g)
              THEN /\ pc' = "exited"
                   /\ report' = [code |-> 1, reason |-> "insufficient_balance",
                                 shortfall |-> Shortfall(g)]
              ELSE /\ pc' = "budget_ok"
                   /\ UNCHANGED report
    /\ UNCHANGED <<cache, ledger, outputs, nruns, args, content, processed_text,
                   chunks, audio_segments, chunk_no, caller, ret, calls, start>>
    /\ UNCHANGED <<chunker, pricing>>

\* main lines 152-161 (75-84): the budget gate
CheckBalance(available) ==
    /\ pc = "balance"
    /\ LET g == check_sufficient_balance(processed_text, available)
       IN  /\ gate' = g
           /\ calls' = Append(calls, Call("get_subscription", <<>>, "ok", <<available>>))
           /\ IF GateAborts(g)
              THEN /\ pc' = "exited"
                   /\ report' = [code |-> 1, reason |-> "insufficient_balance",
                                 shortfall |-> Shortfall(g)]
              ELSE /\ pc' = "budget_ok"
                   /\ UNCHANGED report
    /\ UNCHANGED <<cache, ledger, outputs, nruns, args, content, processed_text,
                   chunks, audio_segments, chunk_no, caller, ret, start>>
    /\ UNCHANGED <<chunker, pricing>>

\* the balance query raises
BalanceRaises ==
    /\ pc = "balance"
    /\ calls' = Append(calls, Call("get_subscription", <<>>, "raised", <<>>))
    /\ pc' = "exited"
    /\ report' = Uncaught("get_subscription")
    /\ UNCHANGED <<cache, ledger, outputs, nruns, args, content, processed_text,
                   gate, chunks, audio_segments, chunk_no, caller, ret, start>>
    /\ UNCHANGED <<chunker, pricing>>

\* a preview that is made in auto mode too
GeneratePreviewInAuto ==
    /\ pc = "budget_ok"
    /\ LET nx == IF Binds(generate_preview_params, MainPreviewPassed)
                 THEN Requested(calls,
                                PreviewText(processed_text, PREVIEW_CHAR_COUNT),
                                {"text"}, "preview")
                 ELSE [ pc     |-> "exited",
                        calls  |-> Append(calls, Call("generate_preview", processed_text,
                                                      "TypeError", <<>>)),
                        report |-> Uncaught("TypeError"),
                        caller |-> "none" ]
       IN  /\ pc' = nx.pc
           /\ calls' = nx.calls
           /\ report' = nx.report
           /\ caller' = nx.caller
    /\ UNCHANGED <<cache, ledger, outputs, nruns, args, content, processed_text,
                   gate, chunks, audio_segments, chunk_no, ret, start>>
    /\ UNCHANGED <<chunker, pricing>>

\* main lines 164-168 (87-91): tts_client.generate_preview is called with
\* context and topic; tts_client lines 89-96 submit the preview text
GeneratePreview ==
    /\ pc = "budget_ok"
    /\ ~args.auto
    /\ LET nx == IF Binds(generate_preview_params, MainPreviewPassed)
                 THEN Requested(calls,
                                PreviewText(processed_text, PREVIEW_CHAR_COUNT),
                                {"text"}, "preview")
                 ELSE [ pc     |-> "exited",
                        calls  |-> Append(calls, Call("generate_preview", processed_text,
                                                      "TypeError", <<>>)),
                        report |-> Uncaught("TypeError"),
                        caller |-> "none" ]
       IN  /\ pc' = nx.pc
           /\ calls' = nx.calls
           /\ report' = nx.report
           /\ caller' = nx.caller
    /\ UNCHANGED <<cache, ledger, outputs, nruns, args, content, processed_text,
                   gate, chunks, audio_segments, chunk_no, ret, start>>
    /\ UNCHANGED <<chunker, pricing>>

\* main lines 183-192 (106-115): chunk the text, request the first chunk
StartFull ==
    /\ pc = "budget_ok"
    /\ args.auto
    /\ LET cs == chunk_text(processed_text, CHUNK_SIZE)
           nx == Requested(calls, cs[1], MainAudioPassed, "chunk")
       IN  /\ chunks' = cs
           /\ audio_segments' = <<>>
           /\ chunk_no' = 1
           /\ pc' = nx.pc
           /\ calls' = nx.calls
           /\ report' = nx.report
           /\ caller' = nx.caller
    /\ UNCHANGED <<cache, ledger, outputs, nruns, args, content, processed_text,
                   gate, ret, start>>
    /\ UNCHANGED <<chunker, pricing>>

\* tts_client lines 67-75: the provider answers and generate_audio returns the
\* bytes (it appends nothing to the usage log); then the caller goes on:
\*   a direct caller has its bytes;
\*   main lines 169-192 (92-115) after the preview: save it, stop on
\*     --preview-only, ask the operator, chunk, request the first chunk;
\*   main lines 193-200 (116-124) after a chunk: keep the segment, request the
\*     next chunk, or concatenate and save after the last one.
SynthReturn(response, timestamp) ==
    /\ pc = "synthesizing"
    /\ LET audio == ProviderAudio(calls[Len(calls)].arg)
           done == Returned(calls, "ok", <<>>)
           stop(history, reason) ==
               [ pc |-> "exited", calls |-> history,
                 report |-> Exited(0, reason), caller |-> "none" ]
           wrote(history, op, path) ==
               Append(history, Call(op, path.stem, "ok", <<path.suffix>>))
       IN  CASE caller = "api" ->
                  /\ ret' = audio
                  /\ pc' = "exited"
                  /\ calls' = done
                  /\ report' = Exited(0, "returned")
                  /\ caller' = "none"
                  /\ UNCHANGED <<outputs, chunks, audio_segments, chunk_no>>
             [] caller = "preview" ->
                  LET cs == chunk_text(processed_text, CHUNK_SIZE)
                      saved == wrote(done, "save_preview", PreviewPath(args.topic))
                      asked == Append(saved, Call("input", <<>>, response, <<>>))
                      nx == IF args.preview_only THEN stop(saved, "preview_only")
                            ELSE IF response # "y" THEN stop(asked, "cancelled")
                            ELSE Requested(asked, cs[1], MainAudioPassed, "chunk")
                      go == ~args.preview_only /\ response = "y"
                  IN  /\ outputs' = save_audio(outputs, audio, PreviewPath(args.topic))
                      /\ chunks' = IF go THEN cs ELSE chunks
                      /\ audio_segments' = IF go THEN <<>> ELSE audio_segments
                      /\ chunk_no' = IF go THEN 1 ELSE chunk_no
                      /\ pc' = nx.pc
                      /\ calls' = nx.calls
                      /\ report' = nx.report
                      /\ caller' = nx.caller
                      /\ UNCHANGED ret
             [] caller = "chunk" ->
                  LET segments == Append(audio_segments, audio)
                      more == chunk_no < Len(chunks)
                      path == OutputPath(args.topic, args.output, timestamp)
                      nx == IF more
                            THEN Requested(done, chunks[chunk_no + 1],
                                           MainAudioPassed, "chunk")
                            ELSE stop(wrote(done, "save_audio", path), "saved")
                  IN  /\ audio_segments' = segments
                      /\ chunk_no' = IF more THEN chunk_no + 1 ELSE chunk_no
                      /\ outputs' = IF more THEN outputs
                                    ELSE save_audio(outputs, concatenate_audio(segments),
                                                    path)
                      /\ pc' = nx.pc
                      /\ calls' = nx.calls
                      /\ report' = nx.report
                      /\ caller' = nx.caller
                      /\ UNCHANGED <<chunks, ret>>
    /\ UNCHANGED <<cache, ledger, nruns, args, content, processed_text, gate, start>>
    /\ UNCHANGED <<chunker, pricing>>

\* the synthesis request raises: nothing catches it
SynthRaises ==
    /\ pc = "synthesizing"
    /\ calls' = Returned(calls, "raised", <<>>)
    /\ pc' = "exited"
    /\ report' = Uncaught("text_to_speech")
    /\ caller' = "none"
    /\ UNCHANGED <<cache, ledger, outputs, nruns, args, content, processed_text,
                   gate, chunks, audio_segments, chunk_no, ret, start>>
    /\ UNCHANGED <<chunker, pricing>>

\* the argument names a direct caller of generate_audio passes (tests,
\* scripts/generate_intro.py: with context and topic; or the text alone)
ApiPassed == { {"text"}, {"text", "context"}, {"text", "context", "topic"} }

\* tts_client lines 53-71: generate_audio called outside a pipeline run
ApiGenerateAudio(text, passed) ==
    /\ pc \in {"idle", "exited"}
    /\ nruns < MaxRuns
    /\ Fresh(ApiArgs)
    /\ LET nx == Requested(<<>>, text, passed, "api")
       IN  /\ pc' = nx.pc
           /\ calls' = nx.calls
           /\ report' = nx.report
           /\ caller' = nx.caller

Next ==
    \/ \E a \in ArgSets : StartRun(a)
    \/ LoadCached
    \/ \E answer \in {"yes", "no"} : PageExists(answer)
    \/ PageExistsRaises
    \/ \E text \in Contents : FetchContent(text)
    \/ FetchRaises
    \/ NormalizeCall
    \/ \E text \in NormTexts, usage \in UsageReports : NormalizeReturn(text, usage)
    \/ NormalizeRaises
    \/ \E available \in Balances : CheckBalance(available)
    \/ BalanceRaises
    \/ GeneratePreview
    \/ StartFull
    \/ \E response \in Responses, timestamp \in 1..MaxRuns :
          SynthReturn(response, timestamp)
    \/ SynthRaises
    \/ \E text \in NormTexts, passed \in ApiPassed : ApiGenerateAudio(text, passed)

Spec == Init /\ [][Next]_vars

-----------------------------------------------------------------------------
(* A call of chunk_text(text, chunk_size), followed pass by pass              *)
(* (src/audio_utils.py lines 15-54)                                           *)

TextChars == {"a", ".", " ", "\n"}
Texts == UNION { [1..n -> TextChars] : n \in 0..MaxLen }
ChunkSizes == 0..MaxChunkSize

\* passes followed in one call: more than a text of MaxLen characters needs
\* when every pass consumes one
MaxPasses == MaxLen + 1

ChunkInit ==
    /\ PipelineIdle
    /\ pricing = PricingAsShipped
    /\ ct_pc = "entry"
    /\ ct_text \in Texts
    /\ ct_chunk_size \in ChunkSizes
    /\ ct_remaining = <<>>
    /\ ct_chunks = <<>>

\* an early return that trims the text
ChunkEntryTrimmed ==
    /\ ct_pc = "entry"
    /\ IF Len(ct_text) <= ct_chunk_size
       THEN /\ ct_chunks' = <<Strip(ct_text)>>
            /\ ct_pc' = "returned"
            /\ UNCHANGED ct_remaining
       ELSE /\ ct_chunks' = <<>>
            /\ ct_remaining' = ct_text
            /\ ct_pc' = "loop"
    /\ UNCHANGED <<ct_text, ct_chunk_size>>
    /\ UNCHANGED <<pipeline, pricing>>

\* lines 28-32: a text that fits is returned whole; otherwise the loop starts
ChunkEntry ==
    /\ ct_pc = "entry"
    /\ IF Len(ct_text) <= ct_chunk_size
       THEN /\ ct_chunks' = <<ct_text>>
            /\ ct_pc' = "returned"
            /\ UNCHANGED ct_remaining
       ELSE /\ ct_chunks' = <<>>
            /\ ct_remaining' = ct_text
            /\ ct_pc' = "loop"
    /\ UNCHANGED <<ct_text, ct_chunk_size>>
    /\ UNCHANGED <<pipeline, pricing>>

\* a loop that always advances by the window, whatever it emitted
ChunkPassSkipping ==
    /\ ct_pc = "loop"
    /\ ct_remaining # <<>>
    /\ Len(ct_chunks) < MaxPasses
    /\ IF Len(ct_remaining) <= ct_chunk_size
       THEN /\ ct_chunks' = Append(ct_chunks, ct_remaining)
            /\ ct_pc' = "returned"
            /\ UNCHANGED ct_remaining
       ELSE LET chunk == TakeChunk(ct_remaining, ct_chunk_size)
            IN  /\ ct_chunks' = Append(ct_chunks, Strip(chunk))
                /\ ct_remaining' = Strip(Suffix(ct_remaining, ct_chunk_size))
                /\ UNCHANGED ct_pc
    /\ UNCHANGED <<ct_text, ct_chunk_size>>
    /\ UNCHANGED <<pipeline, pricing>>

\* lines 34-52: one pass of "while remaining"
ChunkPass ==
    /\ ct_pc = "loop"
    /\ ct_remaining # <<>>
    /\ Len(ct_chunks) < MaxPasses
    /\ IF Len(ct_remaining) <= ct_chunk_size
       THEN /\ ct_chunks' = Append(ct_chunks, ct_remaining)
            /\ ct_pc' = "returned"
            /\ UNCHANGED ct_remaining
       ELSE LET chunk == TakeChunk(ct_remaining, ct_chunk_size)
            IN  /\ ct_chunks' = Append(ct_chunks, Strip(chunk))
                /\ ct_remaining' = Strip(Suffix(ct_remaining, Len(chunk)))
                /\ UNCHANGED ct_pc
    /\ UNCHANGED <<ct_text, ct_chunk_size>>
    /\ UNCHANGED <<pipeline, pricing>>

\* lines 34, 54: nothing remains, the chunks are returned
ChunkReturn ==
    /\ ct_pc = "loop"
    /\ ct_remaining = <<>>
    /\ ct_pc' = "returned"
    /\ UNCHANGED <<ct_text, ct_chunk_size, ct_remaining, ct_chunks>>
    /\ UNCHANGED <<pipeline, pricing>>

ChunkNext ==
    \/ ChunkEntry
    \/ ChunkPass
    \/ ChunkReturn

ChunkSpec == ChunkInit /\ [][ChunkNext]_vars

-----------------------------------------------------------------------------
(* _normalize_filename applied to a topic, and again to its result            *)
(* (src/cache.py lines 20-36)                                                 *)

TopicChars == {"A", "a", "_", "-", " ", "/", "U+0130"}
TopicStrings == UNION { [1..n -> TopicChars] : n \in 0..MaxTopicLen }

KeyInit ==
    /\ NoRun
    /\ cache = <<>>
    /\ ledger = <<>>
    /\ outputs = NoFiles
    /\ ChunkerIdle
    /\ pricing = PricingAsShipped
    /\ calls \in { <<Call("_normalize_filename", topic, "pending", <<>>)>> :
                      topic \in TopicStrings }

\* the topic is normalized
NormalizeFilename ==
    /\ Len(calls) = 1
    /\ calls[1].res = "pending"
    /\ calls' = Returned(calls, "ok", _normalize_filename(calls[1].arg))
    /\ UNCHANGED <<cache, ledger, outputs, nruns, pc, args, content, processed_text,
                   gate, chunks, audio_segments, chunk_no, caller, ret, report, start>>
    /\ UNCHANGED <<chunker, pricing>>

\* the key is normalized again
NormalizeFilenameAgain ==
    /\ Len(calls) = 1
    /\ calls[1].res = "ok"
    /\ calls' = Append(calls, Call("_normalize_filename", calls[1].val, "ok",
                                   _normalize_filename(calls[1].val)))
    /\ UNCHANGED <<cache, ledger, outputs, nruns, pc, args, content, processed_text,
                   gate, chunks, audio_segments, chunk_no, caller, ret, report, start>>
    /\ UNCHANGED <<chunker, pricing>>

KeyNext ==
    \/ NormalizeFilename
    \/ NormalizeFilenameAgain

KeySpec == KeyInit /\ [][KeyNext]_vars

-----------------------------------------------------------------------------
(* The functions of src/cache.py called one after the other on one cache      *)
(* directory; `calls` is the history of these calls                           *)

CacheTopics == { <<"A", " ", "b">>, <<"a", "_", "b">>, <<"a">>, <<"/">> }
CacheTexts == { <<>>, <<"b">>, <<"a", "\r", "\n", "U+00E9">> }

\* a call of the library: the topic and text given, how it ended, its value
LibCall(op, topic, text, res, val) ==
    [op |-> op, arg |-> topic, text |-> text, res |-> res, val |-> val]

\* what these calls leave alone
LibFrame ==
    /\ UNCHANGED <<nruns, pc, args, content, processed_text, gate, chunks,
                   audio_segments, chunk_no, caller, ret, report, start>>
    /\ UNCHANGED <<chunker, pricing>>

\* lines 53-66
CacheSave(topic, text) ==
    /\ Len(calls) < MaxCalls
    /\ cache' = save_to_cache(cache, topic, text)
    /\ calls' = Append(calls, LibCall("save_to_cache", topic, text, "ok",
                                      get_cache_path(topic)))
    /\ UNCHANGED <<ledger, outputs>>
    /\ LibFrame

\* a load that returns the empty text for a topic that is not cached
CacheLoadLenient(topic) ==
    /\ Len(calls) < MaxCalls
    /\ calls' = Append(calls,
                       IF is_cached(cache, topic)
                       THEN LibCall("load_from_cache", topic, <<>>, "ok",
                                    load_from_cache(cache, topic))
                       ELSE LibCall("load_from_cache", topic, <<>>, "ok", <<>>))
    /\ UNCHANGED <<cache, ledger, outputs>>
    /\ LibFrame

\* lines 69-87: ValueError when the file does not exist, else its text
CacheLoad(topic) ==
    /\ Len(calls) < MaxCalls
    /\ calls' = Append(calls,
                       IF is_cached(cache, topic)
                       THEN LibCall("load_from_cache", topic, <<>>, "ok",
                                    load_from_cache(cache, topic))
                       ELSE LibCall("load_from_cache", topic, <<>>, "ValueError", <<>>))
    /\ UNCHANGED <<cache, ledger, outputs>>
    /\ LibFrame

\* lines 90-100
CacheIsCached(topic) ==
    /\ Len(calls) < MaxCalls
    /\ calls' = Append(calls, LibCall("is_cached", topic, <<>>, "ok",
                                      is_cached(cache, topic)))
    /\ UNCHANGED <<cache, ledger, outputs>>
    /\ LibFrame

\* lines 103-118: one label per file, in the order glob yields them
CacheList ==
    /\ Len(calls) < MaxCalls
    /\ \E files \in Orderings(DOMAIN cache) :
          calls' = Append(calls, LibCall("list_cached", <<>>, <<>>, "ok",
                                         list_cached(files)))
    /\ UNCHANGED <<cache, ledger, outputs>>
    /\ LibFrame

\* lines 121-137
CacheDelete(topic) ==
    /\ Len(calls) < MaxCalls
    /\ cache' = IF is_cached(cache, topic) THEN delete_from_cache(cache, topic)
                ELSE cache
    /\ calls' = Append(calls, LibCall("delete_from_cache", topic, <<>>, "ok",
                                      is_cached(cache, topic)))
    /\ UNCHANGED <<ledger, outputs>>
    /\ LibFrame

\* lines 140-154
CacheClear ==
    /\ Len(calls) < MaxCalls
    /\ cache' = clear_cache(cache)
    /\ calls' = Append(calls, LibCall("clear_cache", <<>>, <<>>, "ok",
                                      Cardinality(DOMAIN cache)))
    /\ UNCHANGED <<ledger, outputs>>
    /\ LibFrame

CacheNext ==
    \/ \E topic \in CacheTopics, text \in CacheTexts : CacheSave(topic, text)
    \/ \E topic \in CacheTopics : CacheLoad(topic)
    \/ \E topic \in CacheTopics : CacheIsCached(topic)
    \/ CacheList
    \/ \E topic \in CacheTopics : CacheDelete(topic)
    \/ CacheClear

CacheSpec == Init /\ [][CacheNext]_vars

-----------------------------------------------------------------------------
(* The usage log driven through its own functions (src/usage_logger.py):
   LedgerSpec records, reads and clears a log that starts empty, and lets
   the pricing tables be edited between calls *)

\* context and topic given to a record function
Tags ==
    { [context |-> "production", topic |-> <<"A", " ">>],
      [context |-> "test", topic |-> NoTopic] }

\* characters given to log_elevenlabs_usage
CharacterCounts == {5, 10}

\* context given to get_usage_summary
Filters == {NoContext, "production", "test"}

\* the pricing tables with every price doubled
PricingRaised == [input |-> 30, output |-> 120, per_character |-> 33400]

LedgerFrame ==
    UNCHANGED <<cache, outputs, nruns, pc, args, content, processed_text, gate,
                chunks, audio_segments, chunk_no, caller, ret, report, start,
                chunker>>

\* lines 35-74
LedgerLogOpenAI(usage, tag) ==
    /\ Len(calls) < MaxCalls
    /\ ledger' = log_openai_usage(ledger, usage.prompt_tokens, usage.completion_tokens,
                                  tag.context, tag.topic)
    /\ calls' = Append(calls, LibCall("log_openai_usage", tag.topic, <<>>, "ok",
                                      ledger'[Len(ledger')]))
    /\ UNCHANGED pricing
    /\ LedgerFrame

\* lines 77-106
LedgerLogElevenLabs(characters, tag) ==
    /\ Len(calls) < MaxCalls
    /\ ledger' = log_elevenlabs_usage(ledger, characters, tag.context, tag.topic)
    /\ calls' = Append(calls, LibCall("log_elevenlabs_usage", tag.topic, <<>>, "ok",
                                      ledger'[Len(ledger')]))
    /\ UNCHANGED pricing
    /\ LedgerFrame

\* lines 109-163
LedgerSummary(context) ==
    /\ Len(calls) < MaxCalls
    /\ LET r == get_usage_summary(ledger, context)
       IN  calls' = Append(calls, LibCall("get_usage_summary", context, <<>>, r.res, r))
    /\ UNCHANGED <<ledger, pricing>>
    /\ LedgerFrame

\* lines 166-200
LedgerByTopic ==
    /\ Len(calls) < MaxCalls
    /\ LET r == get_usage_by_topic(ledger)
       IN  calls' = Append(calls, LibCall("get_usage_by_topic", <<>>, <<>>, r.res, r))
    /\ UNCHANGED <<ledger, pricing>>
    /\ LedgerFrame

\* lines 203-206
LedgerClear ==
    /\ Len(calls) < MaxCalls
    /\ ledger' = clear_logs(ledger)
    /\ calls' = Append(calls, LibCall("clear_logs", <<>>, <<>>, "ok", <<>>))
    /\ UNCHANGED pricing
    /\ LedgerFrame

\* lines 14-27 edited between two calls
ChangePricing ==
    /\ pricing = PricingAsShipped
    /\ pricing' = PricingRaised
    /\ UNCHANGED <<ledger, calls>>
    /\ LedgerFrame

LedgerNext ==
    \/ \E usage \in UsageReports, tag \in Tags : LedgerLogOpenAI(usage, tag)
    \/ \E characters \in CharacterCounts, tag \in Tags : LedgerLogElevenLabs(characters, tag)
    \/ \E context \in Filters : LedgerSummary(context)
    \/ LedgerByTopic
    \/ LedgerClear
    \/ ChangePricing

LedgerSpec == Init /\ [][LedgerNext]_vars

-----------------------------------------------------------------------------
(* get_usage_summary and get_usage_by_topic applied to a log file with any
   lines: SummarySpec draws the file and reads it once *)

\* a JSON object without "service"
NoServiceLine ==
    [characters |-> 10, cost_usd |-> 1670, context |-> "test", topic |-> NoTopic]

LogLines ==
    { ElevenLabsEntry(5, "production", <<"A", " ">>),
      ElevenLabsEntry(10, "production", <<"A", " ">>),
      ElevenLabsEntry(35, "production", <<"A", " ">>),
      ElevenLabsEntry(5, "test", NoTopic),
      OpenAIEntry(100, 25, "production", <<"A", " ">>),
      BlankLine, MalformedLine, NoServiceLine }

LogFiles == UNION { [1..n -> LogLines] : n \in 0..MaxLines }

SummaryInit ==
    /\ NoRun
    /\ cache = <<>>
    /\ outputs = NoFiles
    /\ calls = <<>>
    /\ ChunkerIdle
    /\ pricing = PricingAsShipped
    /\ ledger \in LogFiles

\* lines 109-163
ReadSummary(context) ==
    /\ calls = <<>>
    /\ LET r == get_usage_summary(ledger, context)
       IN  calls' = Append(calls, LibCall("get_usage_summary", context, <<>>, r.res, r))
    /\ UNCHANGED <<ledger, pricing>>
    /\ LedgerFrame

\* lines 166-200
ReadByTopic ==
    /\ calls = <<>>
    /\ LET r == get_usage_by_topic(ledger)
       IN  calls' = Append(calls, LibCall("get_usage_by_topic", <<>>, <<>>, r.res, r))
    /\ UNCHANGED <<ledger, pricing>>
    /\ LedgerFrame

SummaryNext ==
    \/ \E context \in Filters : ReadSummary(context)
    \/ ReadByTopic

SummarySpec == SummaryInit /\ [][SummaryNext]_vars

-----------------------------------------------------------------------------
(* Pure functions applied once to an argument drawn at the start:
   concatenate_audio (AudioSpec), the text generate_preview sends (PreviewSpec)
   and the names save_audio, save_preview and the cache derive from a topic
   (NameSpec) *)

\* only the history of calls changes
PureFrame ==
    /\ UNCHANGED <<cache, ledger, outputs>>
    /\ LibFrame

\* nothing stored, no run, and one call about to be made with an argument
\* of `arguments`
OneCallOf(op, arguments) ==
    /\ NoRun
    /\ cache = <<>>
    /\ ledger = <<>>
    /\ outputs = NoFiles
    /\ ChunkerIdle
    /\ pricing = PricingAsShipped
    /\ calls \in { <<Call(op, argument, "pending", <<>>)>> : argument \in arguments }

Pending(op) ==
    /\ Len(calls) = 1
    /\ calls[1].op = op
    /\ calls[1].res = "pending"

\* audio as the provider returns it and as pydub exports it
Segments ==
    { ProviderAudio(<<"a">>), ProviderAudio(<<"b", ".">>), ProviderAudio(<<>>),
      [encoder |-> "pydub", speech |-> << <<"a">>, <<"b", ".">> >>] }

SegmentLists == UNION { [1..n -> Segments] : n \in 0..MaxSegments }

AudioInit == OneCallOf("concatenate_audio", SegmentLists)

\* audio_utils.py lines 57-79
ConcatenateAudio ==
    /\ Pending("concatenate_audio")
    /\ calls' = Returned(calls, "ok", concatenate_audio(calls[1].arg))
    /\ PureFrame

AudioNext == ConcatenateAudio

AudioSpec == AudioInit /\ [][AudioNext]_vars

\* char_count given to generate_preview
PreviewSizes == 1..MaxChunkSize

PreviewInit ==
    OneCallOf("generate_preview",
              { [text |-> text, char_count |-> char_count] :
                    text \in Texts, char_count \in PreviewSizes })

\* tts_client.py lines 89-96: the text handed to generate_audio
GeneratePreviewText ==
    /\ Pending("generate_preview")
    /\ calls' = Returned(calls, "ok", PreviewText(calls[1].arg.text, calls[1].arg.char_count))
    /\ PureFrame

PreviewNext == GeneratePreviewText

PreviewSpec == PreviewInit /\ [][PreviewNext]_vars

NameInit == OneCallOf("save_audio", TopicStrings)

\* audio_utils.py lines 94-99, 121-123 and cache.py lines 49-50: the topic
\* component of the output file, of the preview file and of the cache file
DeriveNames ==
    /\ Pending("save_audio")
    /\ calls' = Returned(calls, "ok",
                         [ output  |-> OutputPath(calls[1].arg, "none", 0).stem,
                           preview |-> PreviewPath(calls[1].arg).stem,
                           key     |-> get_cache_path(calls[1].arg) ])
    /\ PureFrame

NameNext == DeriveNames

NameSpec == NameInit /\ [][NameNext]_vars

-----------------------------------------------------------------------------
(* Vocabulary of the properties *)

\* the positions of the history where `op` was called
CallsOf(op) == {k \in DOMAIN calls : calls[k].op = op}
Answered(op) == {k \in CallsOf(op) : calls[k].res = "ok"}

\* calls into the synthesis client, and requests that reached the provider
SynthesisOps == {"generate_preview", "generate_audio", "text_to_speech"}
KnowledgeOps == {"page_exists", "get_page_content"}
SynthesisCalls == {k \in DOMAIN calls : calls[k].op \in SynthesisOps}

\* the events this invocation appended, and those of one service among them
RunLedger == SubSeq(ledger, start.ledger + 1, Len(ledger))
EventsOf(service) == {k \in DOMAIN RunLedger : RunLedger[k].service = service}

NoCallRaised == \A k \in DOMAIN calls : calls[k].res # "raised"

MainRun == args.entry = "main"
ResumeRun == MainRun /\ args.from_cache
FreshRun == MainRun /\ ~args.from_cache
CacheOnlyRun == FreshRun /\ args.cache_only

\* the audio files this invocation wrote: final outputs and previews
FinalWrites == CallsOf("save_audio")
NoFileWritten ==
    /\ FinalWrites = {}
    /\ CallsOf("save_preview") = {}
    /\ outputs = start.outputs

-----------------------------------------------------------------------------
\* C1: in a fresh or resume-from-cache run, once the budget gate has reported
\* available < required the run has ended, aborted, reporting the shortfall
\* required - available; it has made no call into the synthesis client,
\* appended no synthesis usage event and written no output file.
C1_InsufficientBudgetAborts ==
    (MainRun /\ gate.checked /\ gate.available < gate.required) =>
        /\ pc = "exited"
        /\ report.code = 1
        /\ report.reason = "insufficient_balance"
        /\ report.shortfall = gate.required - gate.available
        /\ SynthesisCalls = {}
        /\ EventsOf("elevenlabs") = {}
        /\ NoFileWritten

C1_Witness ==
    /\ ResumeRun
    /\ gate.checked
    /\ gate.available = 0
    /\ gate.required = 2
    /\ report.shortfall = 2

\* C2: check_sufficient_balance(text) returns required = the character count
\* of the text (0 for the empty text), available = the balance the provider
\* reported for this call, and sufficient exactly when available >= required;
\* the call changes neither the cache, nor the ledger, nor the output files.
C2_BalanceCheckResult ==
    [][(pc = "balance" /\ gate'.checked) =>
          /\ gate'.required = Len(processed_text)
          /\ gate'.available = calls'[Len(calls')].val[1]
          /\ gate'.has_balance = (gate'.available >= gate'.required)
          /\ (processed_text = <<>> => gate'.required = 0 /\ gate'.has_balance)
          /\ UNCHANGED <<cache, ledger, outputs>>]_vars

C2_Witness ==
    /\ gate.checked
    /\ gate.required = 2
    /\ gate.available = 2
    /\ gate.has_balance
    /\ pc = "budget_ok"

\* C3: a fresh run for a topic the knowledge source has, whose calls all
\* return and whose budget gate passes, with the preview bypassed (--auto) or
\* confirmed, has when it ends reached Done and written exactly one output
\* file, named from the topic and a timestamp when no path was given.
C3_FreshRunWritesOneFile ==
    ( /\ FreshRun /\ ~args.cache_only
      /\ pc = "exited"
      /\ \E k \in CallsOf("page_exists") : calls[k].res = "yes"
      /\ Answered("chat_completion") # {}
      /\ gate.checked /\ gate.has_balance
      /\ NoCallRaised
      /\ args.auto \/ \E k \in CallsOf("input") : calls[k].res = "y" )
    =>  /\ report = Exited(0, "saved")
        /\ Cardinality(FinalWrites) = 1
        /\ \A k \in FinalWrites :
              args.output = "none" =>
                  /\ calls[k].arg = safe_topic(args.topic)
                  /\ calls[k].val[1] >= 1
                  /\ OutputPath(args.topic, "none", calls[k].val[1]) \in DOMAIN outputs

C5_FreshRunTakesCachedText ==
    (FreshRun /\ is_cached(start.cache, args.topic)) =>
        /\ CallsOf("get_page_content") = {}
        /\ CallsOf("chat_completion") = {}
        /\ EventsOf("openai") = {}

\* C5, amended: a fresh run never consults the cache: cached topic or not, it
\* has checked the knowledge source, fetched and normalized before it reaches
\* the budget gate; only a resume-from-cache run takes the cached text, and it
\* makes no knowledge-source call and no normalization call and appends no
\* normalization usage event.
C5_OnlyResumeRunTakesCachedText ==
    /\ (FreshRun /\ (pc = "balance" \/ CallsOf("get_subscription") # {})) =>
          /\ Len(calls) >= 3
          /\ calls[1].op = "page_exists" /\ calls[1].res = "yes"
          /\ calls[2].op = "get_page_content" /\ calls[2].res = "ok"
          /\ calls[3].op = "chat_completion" /\ calls[3].res = "ok"
          /\ Cardinality(EventsOf("openai")) = 1
    /\ ResumeRun =>
          /\ \A k \in DOMAIN calls : calls[k].op \notin KnowledgeOps \cup {"chat_completion"}
          /\ EventsOf("openai") = {}
          /\ (pc = "balance" \/ CallsOf("get_subscription") # {}) =>
                processed_text = ReadText(start.cache[_normalize_filename(args.topic)])

C5_Witness ==
    /\ FreshRun
    /\ is_cached(start.cache, args.topic)
    /\ pc = "balance"
    /\ Answered("chat_completion") # {}

\* C6: every synthesis request the provider answers has appended exactly one
\* synthesis usage event, whose quantity is the character count of the text
\* submitted: the invocation's synthesis events are as many as its answered
\* requests.
C6_OneEventPerAnsweredSynthesis ==
    /\ Cardinality(EventsOf("elevenlabs")) = Cardinality(Answered("text_to_speech"))
    /\ \A k \in Answered("text_to_speech") :
          \E e \in EventsOf("elevenlabs") : RunLedger[e].characters = Len(calls[k].arg)

\* C7: in a fresh or cache-only run the normalization service is called at
\* most once, and exactly once in a run that got past normalization; the call
\* is made on the whole fetched text, before any chunking, balance query or
\* synthesis call; once it has returned, the run has appended exactly one
\* normalization usage event, carrying the units the call reported.
C7_NormalizedOnceOnWholeText ==
    FreshRun =>
        /\ Cardinality(CallsOf("chat_completion")) <= 1
        /\ \A k \in CallsOf("chat_completion") :
              /\ calls[k].arg = content
              /\ \A j \in 1..(k - 1) : calls[j].op \in KnowledgeOps
        /\ ( \/ pc \in {"balance", "budget_ok", "synthesizing"}
             \/ gate.checked
             \/ chunks # <<>>
             \/ CallsOf("get_subscription") # {}
             \/ SynthesisCalls # {}
             \/ report.reason = "cached" )
           => Cardinality(Answered("chat_completion")) = 1
        /\ Cardinality(EventsOf("openai")) = Cardinality(Answered("chat_completion"))
        /\ \A k \in Answered("chat_completion") : \A e \in EventsOf("openai") :
              /\ RunLedger[e].input_tokens = calls[k].val[1]
              /\ RunLedger[e].output_tokens = calls[k].val[2]
              /\ RunLedger[e].topic = args.topic

C7_Witness ==
    /\ FreshRun
    /\ pc = "budget_ok"
    /\ content = <<"a", ".", " ", "a">>
    /\ Cardinality(EventsOf("openai")) = 1
    /\ RunLedger[1].input_tokens = 5

\* C8: the ledger never holds an event for a call that has not returned, that
\* raised or that was never made: the events an invocation has appended for a
\* service are never more than its calls to that service that have returned.
C8_EventsOnlyForReturnedCalls ==
    /\ Len(ledger) >= start.ledger
    /\ Cardinality(EventsOf("openai")) <= Cardinality(Answered("chat_completion"))
    /\ Cardinality(EventsOf("elevenlabs")) <= Cardinality(Answered("text_to_speech"))
    /\ DOMAIN RunLedger = EventsOf("openai") \cup EventsOf("elevenlabs")

C8_Witness ==
    /\ pc = "exited"
    /\ report = Uncaught("chat_completion")
    /\ start.ledger = 1
    /\ Len(ledger) = 1

\* C9: in a fresh run every call comes after an existence check that answered
\* yes and was the first call; when the check answers no, the run has ended
\* with a not-found error after that single call, with the cache, the ledger
\* and the output files as they were.
C9_ExistenceCheckFirst ==
    FreshRun =>
        /\ \A k \in DOMAIN calls :
              calls[k].op # "page_exists" =>
                  k > 1 /\ calls[1].op = "page_exists" /\ calls[1].res = "yes"
        /\ (\E k \in CallsOf("page_exists") : calls[k].res = "no") =>
              /\ pc = "exited"
              /\ report = Exited(1, "not_found")
              /\ Len(calls) = 1
              /\ cache = start.cache
              /\ Len(ledger) = start.ledger
              /\ NoFileWritten

C9_Witness ==
    /\ FreshRun
    /\ report = Exited(1, "not_found")
    /\ calls[1].res = "no"

\* C10: a cache-only run makes no balance query and no synthesis call, appends
\* no synthesis usage event and writes no audio file; once normalization has
\* returned it has stored the normalized text under the topic's key, changed no
\* other entry, and stopped; when the source has the topic and no call raised,
\* that is how it ends.
C10_CacheOnlyStopsAfterCaching ==
    CacheOnlyRun =>
        /\ CallsOf("get_subscription") = {}
        /\ SynthesisCalls = {}
        /\ ~gate.checked
        /\ EventsOf("elevenlabs") = {}
        /\ NoFileWritten
        /\ LET key == _normalize_filename(args.topic)
           IN  IF Answered("chat_completion") # {}
               THEN /\ pc = "exited"
                    /\ report = Exited(0, "cached")
                    /\ DOMAIN cache = DOMAIN start.cache \cup {key}
                    /\ ReadText(cache[key]) = processed_text
                    /\ \A k \in DOMAIN start.cache \ {key} : cache[k] = start.cache[k]
               ELSE cache = start.cache
        /\ ( /\ pc = "exited"
             /\ \E k \in CallsOf("page_exists") : calls[k].res = "yes"
             /\ NoCallRaised )
           => report = Exited(0, "cached")

C10_Witness ==
    /\ CacheOnlyRun
    /\ report = Exited(0, "cached")
    /\ nruns = 2
    /\ Cardinality(DOMAIN cache) = 2
    /\ Cardinality(DOMAIN start.cache) = 1

\* C11: a resume-from-cache run makes no knowledge-source call and no
\* normalization call and appends no normalization usage event; without a cache
\* entry for the topic it has ended, aborted as not cached, before any balance
\* query or synthesis call; with one, the budget gate and the chunker are given
\* exactly the cached text; the run leaves the cache as it found it.
C11_ResumeRunUsesCachedText ==
    ResumeRun =>
        /\ \A k \in DOMAIN calls :
              calls[k].op \notin KnowledgeOps \cup {"chat_completion"}
        /\ EventsOf("openai") = {}
        /\ cache = start.cache
        /\ IF ~is_cached(start.cache, args.topic)
           THEN /\ calls = <<>>
                /\ ~gate.checked
                /\ pc # "parsed" => pc = "exited" /\ report = Exited(1, "not_cached")
           ELSE LET cached == ReadText(start.cache[_normalize_filename(args.topic)])
                IN  /\ report.reason # "not_cached"
                    /\ gate.checked => gate.required = Len(cached)
                    /\ chunk_no >= 1 => chunks = chunk_text(cached, CHUNK_SIZE)
                    /\ \A k \in SynthesisCalls :
                          calls[k].arg \in {cached, PreviewText(cached, PREVIEW_CHAR_COUNT)}

C11_Witness ==
    /\ ResumeRun
    /\ is_cached(start.cache, args.topic)
    /\ Len(ReadText(start.cache[_normalize_filename(args.topic)])) = 2
    /\ gate.checked
    /\ chunk_no = 1
    /\ chunks = <<ReadText(start.cache[_normalize_filename(args.topic)])>>

ChunkRequests ==
    {k \in CallsOf("text_to_speech") : \A j \in CallsOf("save_preview") : j < k}

\* C13: once a run has chunked its text, and no call raised, the requests of
\* the full pass are one per chunk, in chunk order, each issued after the
\* audio of the one before was received; segment k is the audio of chunk k;
\* and when the run has ended it has made a request for every chunk and saved
\* the concatenation of the segments in chunk order.
C13_ChunksSynthesizedInOrder ==
    (MainRun /\ chunk_no >= 1 /\ NoCallRaised) =>
        /\ Cardinality(ChunkRequests) = chunk_no
        /\ \A k \in ChunkRequests :
              LET rank == Cardinality({j \in ChunkRequests : j <= k})
              IN  /\ calls[k].arg = chunks[rank]
                  /\ rank < chunk_no => calls[k].res = "ok"
        /\ Len(audio_segments) = Cardinality(ChunkRequests \cap Answered("text_to_speech"))
        /\ \A k \in DOMAIN audio_segments : audio_segments[k] = ProviderAudio(chunks[k])
        /\ pc = "exited" =>
              /\ chunk_no = Len(chunks)
              /\ Len(audio_segments) = Len(chunks)
              /\ Cardinality(FinalWrites) = 1
              /\ \A k \in FinalWrites :
                    LET path == OutputPath(args.topic, args.output, calls[k].val[1])
                    IN  /\ path \in DOMAIN outputs
                        /\ outputs[path].speech = chunks

\* the run has ended otherwise than by finishing what it was asked to do
Aborted ==
    /\ MainRun
    /\ pc = "exited"
    /\ report.code # 0 \/ report.reason = "cancelled"

C15_FailedCallAbortsRun ==
    \A k \in DOMAIN calls :
        calls[k].res \in {"raised", "TypeError"} =>
            /\ k = Len(calls)
            /\ pc = "exited"
            /\ report = Uncaught(IF calls[k].res = "raised" THEN calls[k].op
                                 ELSE "TypeError")
            /\ NoFileWritten
            /\ cache = start.cache
            /\ calls[k].op \in KnowledgeOps => RunLedger = <<>>
            /\ calls[k].op = "chat_completion" => EventsOf("openai") = {}
            /\ calls[k].op \in SynthesisOps => EventsOf("elevenlabs") = {}

C15_Witness ==
    /\ CacheOnlyRun
    /\ report = Uncaught("chat_completion")
    /\ calls[Len(calls)].res = "raised"
    /\ ~is_cached(cache, args.topic)
    /\ RunLedger = <<>>

-----------------------------------------------------------------------------
(* Properties of chunk_text, under ChunkSpec *)

ChunkReturned == ct_pc = "returned"

\* " ".join(chunks)
RECURSIVE JoinWithSpaces(_)
JoinWithSpaces(cs) ==
    IF cs = <<>> THEN <<>>
    ELSE IF Len(cs) = 1 THEN cs[1]
    ELSE cs[1] \o <<" ">> \o JoinWithSpaces(Tail(cs))

\* the text with all whitespace removed
NonWhitespace(t) == SelectSeq(t, LAMBDA c : c \notin Whitespace)

AllWhitespace(t) == \A k \in DOMAIN t : t[k] \in Whitespace

\* cs are slices of t taken in order after position `from`, one after the
\* other without overlap, and what lies between and after them is whitespace
RECURSIVE SlicesInOrder(_, _, _)
SlicesInOrder(cs, t, from) ==
    IF cs = <<>> THEN AllWhitespace(SubSeq(t, from + 1, Len(t)))
    ELSE \E at \in from..(Len(t) - Len(cs[1])) :
            /\ AllWhitespace(SubSeq(t, from + 1, at))
            /\ SubSeq(t, at + 1, at + Len(cs[1])) = cs[1]
            /\ SlicesInOrder(Tail(cs), t, at + Len(cs[1]))

\* C16: for a text no longer than the chunk size, chunk_text returns the one
\* chunk that is the text itself, not trimmed; for the empty text, the single
\* empty chunk and not the empty sequence.
C16_ShortTextIsOneChunk ==
    (ChunkReturned /\ Len(ct_text) <= ct_chunk_size) =>
        /\ ct_chunks = <<ct_text>>
        /\ Len(ct_chunks) = 1
        /\ ct_text = <<>> => ct_chunks = << <<>> >>

C16_Witness ==
    /\ ChunkReturned
    /\ ct_text = <<" ", "a", " ">>
    /\ ct_chunk_size = 3
    /\ ct_chunks = << <<" ", "a", " ">> >>

\* C17: for a chunk size of at least 1, the chunks returned, joined with
\* single spaces and with all whitespace removed, are the text with all
\* whitespace removed; they are slices of the text, in order and without
\* overlap, and only whitespace lies between them.
C17_ContentPreserved ==
    (ChunkReturned /\ ct_chunk_size >= 1) =>
        /\ NonWhitespace(JoinWithSpaces(ct_chunks)) = NonWhitespace(ct_text)
        /\ SlicesInOrder(ct_chunks, ct_text, 0)

C17_Witness ==
    /\ ChunkReturned
    /\ ct_chunk_size = 5
    /\ ct_text = <<"a", "a", "a", ".", " ", "a">>
    /\ ct_chunks = << <<"a", "a", "a", ".">>, <<"a">> >>

\* C18: for a chunk size of at least 1, every chunk, the last one included,
\* is at most chunk_size characters long.
C18_ChunksWithinSize ==
    ct_chunk_size >= 1 =>
        \A k \in DOMAIN ct_chunks : Len(ct_chunks[k]) <= ct_chunk_size

C18_Witness ==
    /\ ChunkReturned
    /\ ct_chunk_size = 2
    /\ Len(ct_text) = 6
    /\ Len(ct_chunks) = 3
    /\ \A k \in DOMAIN ct_chunks : Len(ct_chunks[k]) = 2

\* C19: for every text and every chunk size >= 0 the loop of chunk_text never
\* makes a pass without consuming text: each pass that does not return leaves
\* strictly less text remaining.
C19_EveryPassConsumesText ==
    [][(ct_pc = "loop" /\ ct_pc' = "loop") =>
          Len(ct_remaining') < Len(ct_remaining)]_vars

\* C20: for a non-empty text and a chunk size of at least 1, no chunk is the
\* empty string.
C20_NoEmptyChunk ==
    (ct_text # <<>> /\ ct_chunk_size >= 1) =>
        \A k \in DOMAIN ct_chunks : ct_chunks[k] # <<>>

-----------------------------------------------------------------------------
(* Properties of _normalize_filename, under KeySpec *)

\* the key contains only lower-case word characters and hyphens, and no
\* leading, trailing or doubled underscore
WellFormedKey(key) ==
    /\ \A k \in DOMAIN key :
          \/ key[k] \in LowerCase
          \/ key[k] \in {"_", "-"}
    /\ key # <<>> => key[1] # "_" /\ key[Len(key)] # "_"
    /\ \A k \in 1..(Len(key) - 1) : ~(key[k] = "_" /\ key[k + 1] = "_")

\* C23: normalizing a key again gives the same key, for every topic string,
\* and every key consists only of lower-case word characters and hyphens, with
\* no leading, trailing or doubled underscore.
C23_NormalizationIdempotent ==
    /\ \A k \in Answered("_normalize_filename") : WellFormedKey(calls[k].val)
    /\ Len(calls) = 2 => calls[2].val = calls[1].val

-----------------------------------------------------------------------------
(* Properties of the cache functions, under CacheSpec *)

\* call k of history h writes or removes the entry of `key`
Touches(h, k, key) ==
    \/ h[k].op \in {"save_to_cache", "delete_from_cache"}
       /\ _normalize_filename(h[k].arg) = key
    \/ h[k].op = "clear_cache"

\* the last call before call j that touched the entry of `key`, 0 if none did
LastTouch(h, j, key) ==
    LET touching == {k \in 1..(j - 1) : Touches(h, k, key)}
    IN  IF touching = {} THEN 0
        ELSE CHOOSE k \in touching : \A m \in touching : m <= k

\* going by the history alone, an entry is stored under `key` when call j is made
StoredBefore(h, j, key) ==
    /\ LastTouch(h, j, key) # 0
    /\ h[LastTouch(h, j, key)].op = "save_to_cache"

\* the step appends one call to the history
LibStep == Len(calls') = Len(calls) + 1

SeqRange(f) == {f[k] : k \in DOMAIN f}

\* C21: a load of a topic whose entry was last touched by a save of the same
\* topic returns exactly the text that save was given, whatever the text; a
\* later save of the topic replaced the earlier text as a whole.
C21_CacheRoundTrip ==
    \A j \in CallsOf("load_from_cache") :
        LET i == LastTouch(calls, j, _normalize_filename(calls[j].arg))
        IN  (i # 0 /\ calls[i].op = "save_to_cache" /\ calls[i].arg = calls[j].arg) =>
                /\ calls[j].res = "ok"
                /\ calls[j].val = calls[i].text

\* C22: load_from_cache fails with the not-cached error exactly when no entry
\* is stored under the topic's normalized key, and is_cached answers false
\* exactly then; a load, failing or not, and is_cached leave the cache
\* unchanged; is_cached is true after a save of the topic and false for a key
\* never saved.
C22_LoadFailsExactlyWhenNotCached ==
    [][LibStep =>
          LET j == Len(calls')
              c == calls'[j]
              key == _normalize_filename(c.arg)
          IN  /\ c.op = "load_from_cache" =>
                    /\ c.res \in {"ok", "ValueError"}
                    /\ c.res = "ValueError" <=> ~StoredBefore(calls', j, key)
                    /\ c.res = "ValueError" <=> key \notin DOMAIN cache
                    /\ cache' = cache
              /\ c.op = "is_cached" =>
                    /\ c.val = StoredBefore(calls', j, key)
                    /\ cache' = cache
              /\ c.op = "save_to_cache" => is_cached(cache', c.arg)]_vars

C22_Witness ==
    /\ Len(calls) = 3
    /\ calls[1].op = "save_to_cache" /\ calls[1].arg = <<"A", " ", "b">>
    /\ calls[2].op = "delete_from_cache" /\ calls[2].arg = <<"a", "_", "b">>
    /\ calls[3].op = "load_from_cache" /\ calls[3].arg = <<"A", " ", "b">>
    /\ calls[3].res = "ValueError"

\* C24, as stated: after only saves to an empty cache, list_cached returns
\* exactly the set of topic names saved, one label per name.
C24_ListReturnsSavedNames ==
    \A j \in CallsOf("list_cached") :
        (\A i \in 1..(j - 1) : calls[i].op = "save_to_cache") =>
            /\ SeqRange(calls[j].val) = {calls[i].arg : i \in 1..(j - 1)}
            /\ Len(calls[j].val) = Cardinality({calls[i].arg : i \in 1..(j - 1)})

\* C24, amended: list_cached returns one label per cached entry (topics with
\* the same key share one entry); the label is the entry's file stem with
\* underscores turned into spaces and every word capitalised; a saved name is
\* among the labels exactly when it already has that form.
C24_ListReturnsLabelsOfEntries ==
    \A j \in CallsOf("list_cached") :
        LET saved == {i \in 1..(j - 1) :
                         /\ calls[i].op = "save_to_cache"
                         /\ StoredBefore(calls, j, _normalize_filename(calls[i].arg))
                         /\ LastTouch(calls, j, _normalize_filename(calls[i].arg)) = i}
            keys == {_normalize_filename(calls[i].arg) : i \in saved}
        IN  /\ Len(calls[j].val) = Cardinality(keys)
            /\ SeqRange(calls[j].val) = {CachedLabel(key) : key \in keys}
            /\ \A i \in saved :
                  calls[i].arg \in SeqRange(calls[j].val)
                      <=> calls[i].arg = CachedLabel(_normalize_filename(calls[i].arg))

C24_Witness ==
    /\ Len(calls) = 3
    /\ calls[1].op = "save_to_cache" /\ calls[1].arg = <<"A", " ", "b">>
    /\ calls[2].op = "save_to_cache" /\ calls[2].arg = <<"a">>
    /\ calls[3].op = "list_cached"
    /\ SeqRange(calls[3].val) = { <<"A", " ", "B">>, <<"A">> }

\* C25: delete_from_cache returns true exactly when an entry existed under
\* the topic's key; afterwards the topic is not cached and every other entry
\* is as it was; a false return leaves the cache unchanged; clear_cache
\* returns the number of entries there were and leaves the cache empty.
C25_DeleteAndClear ==
    [][LibStep =>
          LET c == calls'[Len(calls')]
              key == _normalize_filename(c.arg)
          IN  /\ c.op = "delete_from_cache" =>
                    /\ c.val = (key \in DOMAIN cache)
                    /\ DOMAIN cache' = DOMAIN cache \ {key}
                    /\ \A k \in DOMAIN cache' : cache'[k] = cache[k]
                    /\ ~is_cached(cache', c.arg)
                    /\ c.val = FALSE => cache' = cache
              /\ c.op = "clear_cache" =>
                    /\ c.val = Cardinality(DOMAIN cache)
                    /\ DOMAIN cache' = {}]_vars

C25_Witness ==
    /\ Len(calls) = 3
    /\ calls[3].op = "delete_from_cache"
    /\ calls[3].val = TRUE
    /\ calls[1].op = "save_to_cache"
    /\ calls[2].op = "save_to_cache"
    /\ Cardinality(DOMAIN cache) = 1

-----------------------------------------------------------------------------
(* Properties of the usage log, under LedgerSpec and SummarySpec *)

RecordOps == {"log_openai_usage", "log_elevenlabs_usage"}

ReadOps == {"get_usage_summary", "get_usage_by_topic"}

\* the call the step appends to the history
NewCall == calls'[Len(calls')]

\* C26: the usage log is append-only: a record function appends exactly one
\* event at the end and leaves the earlier events as they were and where
\* they were, the two read functions change nothing, and an event is removed
\* or rewritten only by clear_logs, which removes them all.
C26_LedgerAppendOnly ==
    [][/\ LibStep =>
             /\ NewCall.op \in RecordOps =>
                   /\ Len(ledger') = Len(ledger) + 1
                   /\ SubSeq(ledger', 1, Len(ledger)) = ledger
                   /\ ledger'[Len(ledger')] = NewCall.val
             /\ NewCall.op \in ReadOps => ledger' = ledger
             /\ NewCall.op = "clear_logs" => ledger' = <<>>
       /\ (\E k \in DOMAIN ledger : k \notin DOMAIN ledger' \/ ledger'[k] # ledger[k]) =>
             /\ LibStep
             /\ NewCall.op = "clear_logs"
             /\ ledger' = <<>>]_vars

C26_Witness ==
    /\ Len(calls) = 3
    /\ calls[1].op = "log_openai_usage"
    /\ calls[2].op = "log_elevenlabs_usage"
    /\ calls[3].op = "get_usage_summary"
    /\ ledger = <<calls[1].val, calls[2].val>>

\* micro-dollars in one ten-thousandth of a dollar
MicroPerReport == MicroPerDollar \div ReportPerDollar

\* the lines of l that are events taken by the filter
EventsMatching(l, context) ==
    {k \in DOMAIN l : /\ Parses(l[k])
                      /\ "service" \in DOMAIN l[k]
                      /\ context = NoContext \/ l[k].context = context}

EventsOfService(l, S, service) == {k \in S : l[k].service = service}

\* the sum of a field over the lines S of l
RECURSIVE SumOver(_, _, _)
SumOver(l, S, field) ==
    IF S = {} THEN 0
    ELSE LET k == CHOOSE x \in S : TRUE
         IN  l[k][field] + SumOver(l, S \ {k}, field)

\* a total reported in ten-thousandths is the sum `micro` rounded to 4 places
RoundedFrom(reported, micro) ==
    /\ MicroPerReport * reported - micro <= MicroPerReport \div 2
    /\ micro - MicroPerReport * reported <= MicroPerReport \div 2

\* what get_usage_summary reports, against the events the filter takes
SummaryMatches(v, l, context, Total(_, _)) ==
    LET S == EventsMatching(l, context)
        O == EventsOfService(l, S, "openai")
        E == EventsOfService(l, S, "elevenlabs")
    IN  /\ v.openai.calls = Cardinality(O)
        /\ v.openai.total_tokens = SumOver(l, O, "total_tokens")
        /\ Total(v.openai.total_cost_usd, SumOver(l, O, "cost_usd"))
        /\ v.elevenlabs.calls = Cardinality(E)
        /\ v.elevenlabs.total_characters = SumOver(l, E, "characters")
        /\ Total(v.elevenlabs.total_cost_usd, SumOver(l, E, "cost_usd"))
        /\ Total(v.total_cost_usd, SumOver(l, S, "cost_usd"))

\* the all-zero summary
ZeroSummary(v) ==
    /\ v.openai = [total_tokens |-> 0, total_cost_usd |-> 0, calls |-> 0]
    /\ v.elevenlabs = [total_characters |-> 0, total_cost_usd |-> 0, calls |-> 0]
    /\ v.total_cost_usd = 0

ExactSum(reported, micro) == MicroPerReport * reported = micro

IsEvent(l) == Parses(l) /\ "service" \in DOMAIN l

\* C28: a blank or malformed line is skipped: the read functions return
\* what they return on the log without such lines.
C28_BadLinesSkipped ==
    \A j \in DOMAIN calls :
        /\ calls[j].op = "get_usage_summary" =>
              calls[j].val = get_usage_summary(SelectSeq(ledger, IsEvent), calls[j].arg)
        /\ calls[j].op = "get_usage_by_topic" =>
              calls[j].val = get_usage_by_topic(SelectSeq(ledger, IsEvent))

\* the cost of an event at the prices in force now
CostNow(entry) ==
    IF entry.service = "openai"
    THEN OpenAICost(entry.input_tokens, entry.output_tokens)
    ELSE ElevenLabsCost(entry.characters)

\* C29: the cost of an event is the one at the prices in force when it is
\* recorded, and is stored in the event; a change of the pricing tables
\* changes no stored event, and what a read function reported before is what
\* it reports on the same log after the change.
C29_StoredCostSurvivesPricingChange ==
    [][/\ (LibStep /\ NewCall.op \in RecordOps) =>
             /\ ledger'[Len(ledger')].cost_usd = CostNow(NewCall.val)
             /\ pricing' = pricing
       /\ pricing' # pricing => ledger' = ledger
       /\ \A j \in DOMAIN calls :
             (\A k \in j..Len(calls) : calls[k].op \in ReadOps) =>
                 /\ calls[j].op = "get_usage_summary" =>
                       get_usage_summary(ledger, calls[j].arg) = calls[j].val
                 /\ calls[j].op = "get_usage_by_topic" =>
                       get_usage_by_topic(ledger) = calls[j].val]_vars

C29_Witness ==
    /\ pricing = PricingRaised
    /\ Len(ledger) = 2
    /\ ledger[1].service = "elevenlabs" /\ ledger[2].service = "elevenlabs"
    /\ ledger[1].characters = 5 /\ ledger[1].cost_usd = 835
    /\ ledger[2].characters = 5 /\ ledger[2].cost_usd = 1670
    /\ Len(calls) = 3
    /\ calls[3].op = "get_usage_summary"
    /\ calls[3].arg = NoContext
    /\ calls[3].val.elevenlabs.total_cost_usd = 25

\* C30: the read functions return the same on every log with the same
\* events in another order.
C30_OrderInvariant ==
    \A j \in DOMAIN calls :
        (\A k \in DOMAIN ledger : IsEvent(ledger[k])) =>
            \A p \in Orderings(DOMAIN ledger) :
                LET reordered == [k \in DOMAIN ledger |-> ledger[p[k]]]
                IN  /\ calls[j].op = "get_usage_summary" =>
                          get_usage_summary(reordered, calls[j].arg) = calls[j].val
                    /\ calls[j].op = "get_usage_by_topic" =>
                          get_usage_by_topic(reordered) = calls[j].val

\* C39: a save changes only the entry under the topic's normalized key:
\* every entry under another key keeps its text; topics with the same key
\* share one entry, which after the save holds the saved text and nothing of
\* what it held before.
C39_SaveTouchesOnlyItsKey ==
    [][(LibStep /\ NewCall.op = "save_to_cache") =>
          LET key == _normalize_filename(NewCall.arg)
          IN  /\ DOMAIN cache' = DOMAIN cache \cup {key}
              /\ \A k \in DOMAIN cache : k # key => cache'[k] = cache[k]
              /\ cache'[key] = WriteText(NewCall.text)
              /\ \A topic \in CacheTopics :
                    _normalize_filename(topic) = key =>
                        /\ is_cached(cache', topic)
                        /\ cache'[get_cache_path(topic)] = cache'[key]]_vars

C39_Witness ==
    /\ Len(calls) = 3
    /\ calls[1].op = "save_to_cache" /\ calls[1].arg = <<"A", " ", "b">>
    /\ calls[1].text = <<"a", "\r", "\n", "U+00E9">>
    /\ calls[2].op = "save_to_cache" /\ calls[2].arg = <<"a">>
    /\ calls[3].op = "save_to_cache" /\ calls[3].arg = <<"a", "_", "b">>
    /\ calls[3].text = <<"b">>
    /\ DOMAIN cache = {<<"a", "_", "b">>, <<"a">>}
    /\ cache[<<"a", "_", "b">>] = WriteText(<<"b">>)

\* C40: in every result of get_usage_summary the grand total cost is the
\* sum of the two per-service total costs of the same result.
C40_GrandTotalIsSumOfServiceTotals ==
    \A j \in CallsOf("get_usage_summary") :
        calls[j].res = "ok" =>
            calls[j].val.total_cost_usd
                = calls[j].val.openai.total_cost_usd + calls[j].val.elevenlabs.total_cost_usd

-----------------------------------------------------------------------------
(* Properties of the pure functions, under AudioSpec, PreviewSpec, NameSpec *)

\* C31: concatenate_audio of a single segment returns that segment as it
\* is: the same bytes, still in the encoding it came in.
C31_SingleSegmentUnchanged ==
    \A k \in Answered("concatenate_audio") :
        Len(calls[k].arg) = 1 => calls[k].val = calls[k].arg[1]

C31_Witness ==
    /\ Answered("concatenate_audio") = {1}
    /\ calls[1].arg = <<ProviderAudio(<<"b", ".">>)>>
    /\ calls[1].val.encoder = "elevenlabs"

\* C34: the text generate_preview sends is the first chunk chunk_text
\* emits for the same text with the preview length as chunk size.
C34_PreviewIsFirstChunk ==
    \A k \in Answered("generate_preview") :
        calls[k].val = chunk_text(calls[k].arg.text, calls[k].arg.char_count)[1]

\* C36: the topic component of the output file name and of the preview file
\* name is the key the cache uses for the topic, so two topics have the same
\* name stem exactly when they have the same key.
C36_OutputStemIsCacheKey ==
    \A k \in Answered("save_audio") :
        /\ calls[k].val.output = calls[k].val.key
        /\ calls[k].val.preview = calls[k].val.key
        /\ \A other \in TopicStrings :
              safe_topic(other) = calls[k].val.output
                  <=> _normalize_filename(other) = calls[k].val.key

-----------------------------------------------------------------------------
(* The cutting rule of chunk_text, under ChunkSpec *)

\* the places of a window, counted from 1, where a newline or a period
\* followed by a space stands
Boundaries(window) ==
    {k \in DOMAIN window :
        \/ window[k] = "\n"
        \/ (k < Len(window) /\ window[k] = "." /\ window[k + 1] = " ")}

\* the last of them, 0 when there is none
LastBoundary(window) ==
    IF Boundaries(window) = {} THEN 0
    ELSE CHOOSE k \in Boundaries(window) : \A m \in Boundaries(window) : m <= k

\* the length of the prefix a pass cuts off: up to and with the last boundary
\* when its index, counted from 0, is more than half the size, else the window
CutLength(remaining, size) ==
    LET last == LastBoundary(SubSeq(remaining, 1, size))
    IN  IF last > 0 /\ 2 * (last - 1) > size THEN last ELSE size

\* C32: a pass over a remainder longer than the chunk size cuts just after
\* the last period-plus-space or newline of the window of that size when it
\* lies past half the size, and after the whole window otherwise; it emits
\* the cut prefix trimmed, and the trimmed rest is the next remainder; a chunk
\* cut at a period-plus-space ends with a period.
C32_PassCutsAtLastBoundary ==
    [][(ct_pc = "loop" /\ Len(ct_remaining) > ct_chunk_size /\ ct_chunks' # ct_chunks) =>
          LET cut == CutLength(ct_remaining, ct_chunk_size)
              emitted == ct_chunks'[Len(ct_chunks')]
          IN  /\ ct_chunks' = Append(ct_chunks, Strip(SubSeq(ct_remaining, 1, cut)))
              /\ ct_remaining' = Strip(SubSeq(ct_remaining, cut + 1, Len(ct_remaining)))
              /\ (cut < ct_chunk_size /\ ct_remaining[cut] = ".") =>
                    (emitted # <<>> /\ emitted[Len(emitted)] = ".")]_vars

C32_Witness ==
    /\ ct_pc = "loop"
    /\ ct_text = <<"a", "a", "a", ".", " ", "a">>
    /\ ct_chunk_size = 5
    /\ ct_chunks = << <<"a", "a", "a", ".">> >>
    /\ ct_remaining = <<"a">>

-----------------------------------------------------------------------------
(* The budget gate and the operator's confirmation, under Spec *)

BalanceQueries == CallsOf("get_subscription")

\* the run has come to the budget gate and gone through its query
PastBalanceQuery ==
    \/ pc \in {"budget_ok", "synthesizing"}
    \/ gate.checked
    \/ SynthesisCalls # {}

\* C33: a run that reaches the budget gate queries the provider's balance
\* exactly once: after the normalization answered (first of all calls in a
\* resume-from-cache run, whose text is loaded by then), before every call
\* into the synthesis client, never again afterwards; the available quantity
\* of the gate is the answer to that query of this run.
C33_BalanceQueriedOncePerRun ==
    MainRun =>
        /\ Cardinality(BalanceQueries) <= 1
        /\ PastBalanceQuery => Cardinality(BalanceQueries) = 1
        /\ \A k \in BalanceQueries :
              /\ IF args.from_cache
                 THEN k = 1 /\ processed_text = load_from_cache(start.cache, args.topic)
                 ELSE k > 1 /\ calls[k - 1].op = "chat_completion"
                            /\ calls[k - 1].res = "ok"
              /\ \A j \in SynthesisCalls : k < j
              /\ gate.checked => calls[k].val = <<gate.available>>
        /\ gate.checked => gate.required = Len(processed_text)

\* a second run whose gate answered otherwise than the first run's would
\* have, and which then called the synthesis client
C33_Witness ==
    /\ MainRun
    /\ nruns = 2
    /\ gate.checked
    /\ gate.available = gate.required
    /\ gate.available > 0
    /\ Cardinality(BalanceQueries) = 1
    /\ SynthesisCalls # {}

\* the synthesis-client calls of the full pass: those made for a chunk
\* (generate_audio called by main, and its request when it reaches the provider)
\* in a run without auto the first request to the provider is the preview's
ChunkCalls ==
    CallsOf("generate_audio") \cup
        {k \in CallsOf("text_to_speech") :
            args.auto \/ \E j \in CallsOf("text_to_speech") : j < k}

\* the preview file is as the run found it
PreviewFileUntouched ==
    LET path == PreviewPath(args.topic)
    IN  IF path \in DOMAIN start.outputs
        THEN path \in DOMAIN outputs /\ outputs[path] = start.outputs[path]
        ELSE path \notin DOMAIN outputs

\* C35: an auto run asks the operator nothing, calls and saves no preview,
\* and its balance query, once the gate passes, is followed at once by the
\* call for the first chunk; in a run without auto every chunk call comes
\* after the preview was saved and the operator answered "y".
C35_AutoNeverWaitsManualWaits ==
    MainRun =>
        /\ args.auto =>
              /\ CallsOf("input") = {}
              /\ CallsOf("generate_preview") = {}
              /\ CallsOf("save_preview") = {}
              /\ PreviewFileUntouched
              /\ pc # "budget_ok" =>
                    \A k \in BalanceQueries :
                        (calls[k].res = "ok" /\ ~GateAborts(gate)) =>
                            /\ Len(calls) > k
                            /\ (k + 1) \in ChunkCalls
                            /\ calls[k + 1].arg = chunk_text(processed_text, CHUNK_SIZE)[1]
        /\ ~args.auto =>
              \A k \in ChunkCalls :
                  /\ \E s \in CallsOf("save_preview") : s < k
                  /\ \E i \in CallsOf("input") : i < k /\ calls[i].res = "y"

\* an auto run went from a passing gate straight to its first chunk call
C35_Witness ==
    /\ MainRun
    /\ args.auto
    /\ gate.checked
    /\ ~GateAborts(gate)
    /\ processed_text # <<>>
    /\ ChunkCalls # {}
    /\ CallsOf("input") = {}

\* C38: a run asked for the preview only makes no synthesis-client call for
\* a chunk of the full pass and writes no final output file, with or without
\* auto, fresh or resumed from the cache.
C38_PreviewOnlyNeverRunsFullPass ==
    (MainRun /\ args.preview_only) =>
        /\ ChunkCalls = {}
        /\ FinalWrites = {}

\* the characters of the texts handed to the synthesis client in the calls of
\* a history: the requests that reached the provider and the calls that were
\* rejected before
RECURSIVE Submitted(_)
Submitted(history) ==
    IF history = <<>> THEN 0
    ELSE LET last == history[Len(history)]
         IN  Submitted(Front(history)) +
                 (IF last.op \in SynthesisOps THEN Len(last.arg) ELSE 0)

====
